---- MODULE Spec2Model ----
(***************************************************************************)
(* Model of ovhctl's `domain record sync` command (cmd/domain.rs,          *)
(* sync_records) together with the parts of the OVH API it talks to: the   *)
(* public cloud inventory (tenants, instances) and one DNS zone.           *)
(*                                                                         *)
(* The command is one sequential task: it fetches the instances, fetches   *)
(* the zone's records, computes a diff (records_to_delete,                 *)
(* records_to_create), applies it (DELETEs, then POSTs), refreshes the     *)
(* zone and reads the records again.  Every HTTP request is one action;    *)
(* the server may answer any request with an error.                        *)
(*                                                                         *)
(* Spec is that command.  SpecAnon is the same command against a provider  *)
(* that serves some records without id.  SpecClient is one call of a       *)
(* method of Client (ovh/mod.rs) with the request it builds, the response  *)
(* and what it returns.  SpecCommands is the commands that list tenants,   *)
(* instances, zones and records, and connect, from their configuration on. *)
(* SpecAwait is the sync with every call split into the request written    *)
(* and the response handled.  SpecNames is the sync of one instance whose  *)
(* name may hold the zone suffix more than once.  SpecAuthenticated is     *)
(* every command that sends authenticated requests, from its               *)
(* configuration on.                                                       *)
(***************************************************************************)
EXTENDS Integers, Sequences, FiniteSets

\* ------------------------------------------------------------------------
\* Bounds of the model

MaxTenants   == 2    \* tenants of the account
MaxInstances == 1    \* instances per tenant
MaxAddresses == 1    \* ip addresses per instance
MaxRecords   == 2    \* records in the zone before the sync
MaxCidrs     == 2    \* entries of the --not-in-cidrs exclusion list
MaxZones     == 2    \* zones of the account
MaxServers   == 2    \* dedicated servers of the account
MaxLoadBalancers == 2    \* load balancers of a tenant

\* ------------------------------------------------------------------------
\* Values

\* Option<T>: None is the empty sequence, Some(x) the sequence of x alone.
None == <<>>
Some(x) == <<x>>

zone == "example.com"

\* "." + zone, the pattern of trim_end_matches (cmd/domain.rs:158).  Names are
\* sequences of tokens; the suffix is one token.
ZoneSuffix == ".example.com"

\* An IpAddr is a family and the low bits of the address; AddrBits is the
\* width of the part the model keeps.
AddrBits == 4

Ip7  == [family |-> 4, bits |-> 7]     \* 198.51.100.7
Ip9  == [family |-> 4, bits |-> 9]     \* 198.51.100.9
Ip61 == [family |-> 6, bits |-> 1]     \* 2001:db8::1

IpSet == {Ip7, Ip9, Ip61}

\* IpAddr's Display (address.ip.to_string(), cmd/domain.rs:162): the canonical
\* text of the address.
to_string(ip) ==
    CASE ip = Ip7  -> "198.51.100.7"
      [] ip = Ip9  -> "198.51.100.9"
      [] ip = Ip61 -> "2001:db8::1"

\* IpNetwork values of the exclusion list: family, network bits, prefix length
\* (counted within AddrBits).
Cidr(family, bits, prefix) == [family |-> family, bits |-> bits, prefix |-> prefix]

CidrSet == { Cidr(4, 0, 1),      \* 198.51.100.0/29 : .0 - .7
             Cidr(6, 0, 0) }     \* ::/0

RECURSIVE Pow2(_)
Pow2(n) == IF n = 0 THEN 1 ELSE 2 * Pow2(n - 1)

\* IpNetwork::contains: the families agree and the address masked by the
\* prefix equals the network.
CidrContains(cidr, ip) ==
    /\ cidr.family = ip.family
    /\ (ip.bits \div Pow2(AddrBits - cidr.prefix))
         = (cidr.bits \div Pow2(AddrBits - cidr.prefix))

\* Mutant of net_contains: only the first CIDR of the list is tried.
net_contains_FirstOnly(cidrs, ip) ==
    IF cidrs # <<>> /\ CidrContains(Head(cidrs), ip) THEN Some(Head(cidrs)) ELSE None

\* util/net.rs contains: the first CIDR of the list that contains ip, or None.
RECURSIVE net_contains(_, _)
net_contains(cidrs, ip) ==
    IF cidrs = <<>> THEN None
    ELSE IF CidrContains(Head(cidrs), ip) THEN Some(Head(cidrs))
    ELSE net_contains(Tail(cidrs), ip)

\* ovh/cloud IpAddress {ip, type, version}
IpAddress(ip, kind, version) == [ip |-> ip, kind |-> kind, version |-> version]

\* The addresses an instance can report: 198.51.100.7 as public or private,
\* with version 4 or with a version that is neither 4 nor 6, and 2001:db8::1
\* as public with version 6.
AddressSet ==
    { IpAddress(Ip7, kind, version) : kind \in {"public", "private"}, version \in {4, 5} }
    \cup { IpAddress(Ip61, "public", 6) }

NameSet == { <<"web-01">>, <<"db-01", ZoneSuffix>> }

RECURSIVE SeqsUpTo(_, _)
SeqsUpTo(S, n) ==
    IF n = 0 THEN {<<>>}
    ELSE LET shorter == SeqsUpTo(S, n - 1)
         IN  shorter \cup { Append(s, x) : s \in {t \in shorter : Len(t) = n - 1}, x \in S }

\* ovh/cloud Instance {name, ipAddresses}
InstanceSet ==
    { [name |-> n, ip_addresses |-> a] :
        n \in NameSet, a \in SeqsUpTo(AddressSet, MaxAddresses) }

\* ovh/domain Record
Record(id, field_type, sub_domain, ttl, target) ==
    [id |-> id, field_type |-> field_type, sub_domain |-> sub_domain,
     ttl |-> ttl, zone |-> zone, target |-> target]

\* Mutant of RecordEq: the derived equality, which compares the id too.
RecordEq_WithId(a, b) ==
    /\ a.id = b.id
    /\ a.field_type = b.field_type
    /\ a.sub_domain = b.sub_domain
    /\ a.zone = b.zone
    /\ a.target = b.target

\* impl PartialEq for Record (ovh/domain.rs:93-100)
RecordEq(a, b) ==
    /\ a.field_type = b.field_type
    /\ a.sub_domain = b.sub_domain
    /\ a.zone = b.zone
    /\ a.target = b.target

\* ------------------------------------------------------------------------
\* The provider (the other end of the HTTP requests)

\* serde's serialization of a Record (ovh/domain.rs:77-91): id and ttl are
\* left out when None, zone is never written.
Serialize(record) ==
    [fieldType |-> record.field_type, subDomain |-> record.sub_domain,
     ttl |-> record.ttl, target |-> record.target]

\* Bodies of the records a zone can hold before the sync: their targets are the
\* canonical texts of the addresses and, for 2001:db8::1, also a spelling that
\* is not the canonical one.
ZoneRecordSet ==
    { Serialize(Record(None, "A",    <<"web-01">>, None, to_string(Ip7))),
      Serialize(Record(None, "A",    <<"db-01">>,  None, to_string(Ip7))),
      Serialize(Record(None, "A",    <<"web-01">>, None, to_string(Ip9))),
      Serialize(Record(None, "AAAA", <<"web-01">>, None, to_string(Ip61))),
      Serialize(Record(None, "AAAA", <<"db-01">>,  None, "2001:DB8:0::1")) }

\* The record the server stores for a body posted to
\* domain/zone/{zone_name}/record: it gives it an id, and a ttl when the body
\* has none.
Stored(id, zone_name, body) ==
    [id |-> Some(id), field_type |-> body.fieldType, sub_domain |-> body.subDomain,
     ttl |-> IF body.ttl = None THEN Some(3600) ELSE body.ttl,
     zone |-> zone_name, target |-> body.target]

RECURSIVE Numbered(_, _)
Numbered(bodies, first) ==
    IF bodies = <<>> THEN <<>>
    ELSE <<Stored(first, zone, Head(bodies))>> \o Numbered(Tail(bodies), first + 1)

\* The cloud: a sequence of tenants, each the sequence of its instances.
TenantSet == SeqsUpTo(InstanceSet, MaxInstances)
CloudSet  == SeqsUpTo(TenantSet, MaxTenants)

\* ------------------------------------------------------------------------
\* The diff of sync_records (cmd/domain.rs:125-181)

\* domain::contains(&records, &address.ip): the first record whose target is
\* the text of the address, or None.
RECURSIVE domain_contains(_, _)
domain_contains(recs, ip) ==
    IF recs = <<>> THEN None
    ELSE IF Head(recs).target = to_string(ip) THEN Some(Head(recs))
    ELSE domain_contains(Tail(recs), ip)

\* str::trim_end_matches: every trailing repetition of the pattern is removed.
RECURSIVE trim_end_matches(_, _)
trim_end_matches(s, pat) ==
    IF s # <<>> /\ s[Len(s)] = pat
    THEN trim_end_matches(SubSeq(s, 1, Len(s) - 1), pat)
    ELSE s

\* Mutant of FieldType: any version other than 4 gets an AAAA record.
FieldType_Default(version) ==
    IF version = 4 THEN Some("A") ELSE Some("AAAA")

\* Mutant of FieldType: the two field types are swapped.
FieldType_Swapped(version) ==
    IF version = 4 THEN Some("AAAA")
    ELSE IF version = 6 THEN Some("A")
    ELSE None

\* match address.version (cmd/domain.rs:148-152); None stands for `continue`.
FieldType(version) ==
    IF version = 4 THEN Some("A")
    ELSE IF version = 6 THEN Some("AAAA")
    ELSE None

\* The Record literal of cmd/domain.rs:154-163.
NewRecord(name, zone_name, field_type, address) ==
    [id |-> None, field_type |-> field_type,
     sub_domain |-> trim_end_matches(name, ZoneSuffix),
     ttl |-> None, zone |-> zone_name, target |-> to_string(address.ip)]

\* Mutant of Compare: a record that differs is kept and the desired one
\* created beside it.
Compare_Keep(record, new_record) ==
    IF record = None
    THEN [delete |-> <<>>, create |-> <<new_record>>]
    ELSE IF ~RecordEq(record[1], new_record)
         THEN [delete |-> <<>>, create |-> <<new_record>>]
         ELSE [delete |-> <<>>, create |-> <<>>]

\* The match of cmd/domain.rs:165-175: what the iteration pushes given the
\* looked-up record and the desired one.
Compare(record, new_record) ==
    IF record = None
    THEN [delete |-> <<>>, create |-> <<new_record>>]
    ELSE IF ~RecordEq(record[1], new_record)
         THEN [delete |-> record, create |-> <<new_record>>]
         ELSE [delete |-> <<>>, create |-> <<>>]

\* The first record with this sub domain, or None.
RECURSIVE BySubDomain(_, _)
BySubDomain(recs, sub_domain) ==
    IF recs = <<>> THEN None
    ELSE IF Head(recs).sub_domain = sub_domain THEN Some(Head(recs))
    ELSE BySubDomain(Tail(recs), sub_domain)

\* Mutant of DiffAddress: the existing record is looked up by the instance's
\* sub domain instead of by the address.
DiffAddress_BySubDomain(recs, cidrs, zone_name, name, address) ==
    LET record == BySubDomain(recs, trim_end_matches(name, ZoneSuffix)) IN
    IF "public" # address.kind
    THEN [delete |-> record, create |-> <<>>]
    ELSE IF net_contains(cidrs, address.ip) # None
    THEN [delete |-> record, create |-> <<>>]
    ELSE IF FieldType(address.version) = None
    THEN [delete |-> <<>>, create |-> <<>>]
    ELSE Compare(record,
                 NewRecord(name, zone_name, FieldType(address.version)[1], address))

\* Mutant of DiffAddress: an address that is not public is skipped without
\* looking at the existing record.
DiffAddress_KeepStale(recs, cidrs, zone_name, name, address) ==
    LET record == domain_contains(recs, address.ip) IN
    IF "public" # address.kind
    THEN [delete |-> <<>>, create |-> <<>>]
    ELSE IF net_contains(cidrs, address.ip) # None
    THEN [delete |-> record, create |-> <<>>]
    ELSE IF FieldType(address.version) = None
    THEN [delete |-> <<>>, create |-> <<>>]
    ELSE Compare(record,
                 NewRecord(name, zone_name, FieldType(address.version)[1], address))

\* One iteration of the inner loop (cmd/domain.rs:130-176): the records it
\* pushes to records_to_delete and to records_to_create.
DiffAddress(recs, cidrs, zone_name, name, address) ==
    LET record == domain_contains(recs, address.ip) IN
    IF "public" # address.kind
    THEN [delete |-> record, create |-> <<>>]
    ELSE IF net_contains(cidrs, address.ip) # None
    THEN [delete |-> record, create |-> <<>>]
    ELSE IF FieldType(address.version) = None
    THEN [delete |-> <<>>, create |-> <<>>]
    ELSE Compare(record,
                 NewRecord(name, zone_name, FieldType(address.version)[1], address))

\* The iterations of the two nested loops, in order: one entry per instance
\* and address.
RECURSIVE Iterations(_)
Iterations(insts) ==
    IF insts = <<>> THEN <<>>
    ELSE [k \in 1..Len(Head(insts).ip_addresses) |->
            [name |-> Head(insts).name, address |-> Head(insts).ip_addresses[k]]]
         \o Iterations(Tail(insts))

\* The whole diff: (records_to_delete, records_to_create) after the loops.
RECURSIVE Diff(_, _, _, _)
Diff(its, recs, cidrs, zone_name) ==
    IF its = <<>> THEN [delete |-> <<>>, create |-> <<>>]
    ELSE LET n    == Len(its)
             rest == Diff(SubSeq(its, 1, n - 1), recs, cidrs, zone_name)
             d    == DiffAddress(recs, cidrs, zone_name, its[n].name, its[n].address)
         IN  [delete |-> rest.delete \o d.delete, create |-> rest.create \o d.create]

\* ------------------------------------------------------------------------
\* The client (ovh/mod.rs).  The strings that are concatenated or compared
\* are sequences of pieces of text.

X_OVH_APPLICATION == "X-Ovh-Application"
X_OVH_TIMESTAMP == "X-Ovh-Timestamp"
X_OVH_SIGNATURE == "X-Ovh-Signature"
X_OVH_CONSUMER == "X-Ovh-Consumer"
USER_AGENT == "user-agent"
CONTENT_TYPE == "Content-Type"

\* cfg::Ovh: consumer_key is an Option.
Ovh(endpoint, application_key, application_secret, consumer_key) ==
    [endpoint |-> endpoint, application_key |-> application_key,
     application_secret |-> application_secret, consumer_key |-> consumer_key]

SecretSet == {<<"s3">>, <<"s3", "+", "ck">>}
ConsumerSet == {<<"ck">>, <<"ck", "+", "GET">>}

OvhSet ==
    {Ovh(<<"https://eu.api.ovh.com/1.0">>, <<"ak">>, secret, consumer_key) :
        secret \in SecretSet, consumer_key \in {None} \cup {Some(c) : c \in ConsumerSet}}

\* ClientConfiguration::try_from: there is no client without consumer key.
Err(e) == [ok |-> FALSE, value |-> None, error |-> Some(e)]
Ok(v) == [ok |-> TRUE, value |-> Some(v), error |-> None]

\* An error message: what it is about and the values formatted into it.
Message(kind, uri, status, body) ==
    [kind |-> kind, uri |-> uri, status |-> status, body |-> body]

\* Mutant of try_from: a missing consumer key becomes an empty one.
try_from_Lenient(ovh) ==
    Ok([endpoint |-> ovh.endpoint, application_key |-> ovh.application_key,
        application_secret |-> ovh.application_secret,
        consumer_key |-> IF ovh.consumer_key = None THEN <<>> ELSE ovh.consumer_key[1]])

try_from(ovh) ==
    IF ovh.consumer_key = None
    THEN Err(Message("could not retrieve consumer key", None, None, None))
    ELSE Ok([endpoint |-> ovh.endpoint, application_key |-> ovh.application_key,
             application_secret |-> ovh.application_secret,
             consumer_key |-> ovh.consumer_key[1]])

\* format!("{}", timestamp) of a timestamp that is not negative.
RECURSIVE Decimal(_)
Decimal(n) ==
    LET digit == <<"0", "1", "2", "3", "4", "5", "6", "7", "8", "9">>[(n % 10) + 1]
    IN  IF n < 10 THEN <<digit>> ELSE Append(Decimal(n \div 10), digit)

\* format!("{}/{}", endpoint, path)
Uri(config, path) == config.endpoint \o <<"/">> \o path

\* The object of a post or put is a string, <<"str">> followed by its text,
\* or a structure, <<"struct">> followed by its JSON text; serde_json::to_string
\* quotes the first and writes the second.
Str(text) == <<"str">> \o text
Struct(json) == <<"struct">> \o json
to_json(obj) ==
    IF Head(obj) = "str" THEN <<"\"">> \o Tail(obj) \o <<"\"">> ELSE Tail(obj)

\* Sha1 and result_str, taken as an injective function of what was fed in.
Sha1(input) == <<"sha1(">> \o input \o <<")">>

\* What Client::hash feeds to the hasher.
Digested(secret, consumer_key, method, path, body, timestamp) ==
    secret \o <<"+">> \o consumer_key \o <<"+">> \o method \o <<"+">> \o path
           \o <<"+">> \o body \o <<"+">> \o Decimal(timestamp)

\* Mutant of hash: the timestamp is not fed to the hasher.
hash_NoTimestamp(config, method, path, body, timestamp) ==
    <<"$1$">> \o Sha1(config.application_secret \o <<"+">> \o config.consumer_key
                      \o <<"+">> \o method \o <<"+">> \o path \o <<"+">> \o body
                      \o <<"+">>)

\* Client::hash
hash(config, method, path, body, timestamp) ==
    <<"$1$">> \o Sha1(Digested(config.application_secret, config.consumer_key,
                               method, path, body, timestamp))

Header(name, value) == <<name, value>>

Agent == Header(USER_AGENT, <<"ovhctl/", "version">>)

\* The body sent by post and put: `""`, the JSON of the empty string, is
\* replaced by nothing.
Body(json) == IF json # <<"\"", "\"">> THEN json ELSE <<>>

\* The header post and put start the builder with.
JsonType(json) ==
    IF json # <<"\"", "\"">> THEN <<Header(CONTENT_TYPE, <<"application/json">>)>>
    ELSE <<>>

HttpRequest(method, uri, headers, body) ==
    [method |-> method, uri |-> uri, headers |-> headers, body |-> body]

\* The request Client::get builds.
get_request(config, path, timestamp) ==
    LET uri == Uri(config, path)
    IN  HttpRequest("GET", uri,
            << Header(X_OVH_APPLICATION, config.application_key),
               Header(X_OVH_TIMESTAMP, Decimal(timestamp)),
               Header(X_OVH_CONSUMER, config.consumer_key),
               Header(X_OVH_SIGNATURE, hash(config, <<"GET">>, uri, <<>>, timestamp)),
               Agent >>,
            <<>>)

\* Mutant of post_request: the signature is made of the JSON of the object,
\* also when the body sent is the empty string.
post_request_SignsJson(config, path, obj, timestamp) ==
    LET uri  == Uri(config, path)
        body == Body(to_json(obj))
    IN  HttpRequest("POST", uri,
            JsonType(to_json(obj)) \o
            << Header(X_OVH_APPLICATION, config.application_key),
               Header(X_OVH_TIMESTAMP, Decimal(timestamp)),
               Header(X_OVH_CONSUMER, config.consumer_key),
               Header(X_OVH_SIGNATURE, hash(config, <<"POST">>, uri, to_json(obj), timestamp)),
               Agent >>,
            body)

\* The request Client::post builds.
post_request(config, path, obj, timestamp) ==
    LET uri  == Uri(config, path)
        body == Body(to_json(obj))
    IN  HttpRequest("POST", uri,
            JsonType(to_json(obj)) \o
            << Header(X_OVH_APPLICATION, config.application_key),
               Header(X_OVH_TIMESTAMP, Decimal(timestamp)),
               Header(X_OVH_CONSUMER, config.consumer_key),
               Header(X_OVH_SIGNATURE, hash(config, <<"POST">>, uri, body, timestamp)),
               Agent >>,
            body)

\* The request Client::put builds.
put_request(config, path, obj, timestamp) ==
    LET uri  == Uri(config, path)
        body == Body(to_json(obj))
    IN  HttpRequest("PUT", uri,
            JsonType(to_json(obj)) \o
            << Header(CONTENT_TYPE, <<"application/json">>),
               Header(X_OVH_APPLICATION, config.application_key),
               Header(X_OVH_APPLICATION, config.application_key),
               Header(X_OVH_TIMESTAMP, Decimal(timestamp)),
               Header(X_OVH_CONSUMER, config.consumer_key),
               Header(X_OVH_SIGNATURE, hash(config, <<"PUT">>, uri, body, timestamp)),
               Agent >>,
            body)

\* The request Client::delete builds.
delete_request(config, path, timestamp) ==
    LET uri == Uri(config, path)
    IN  HttpRequest("DELETE", uri,
            << Header(X_OVH_APPLICATION, config.application_key),
               Header(X_OVH_TIMESTAMP, Decimal(timestamp)),
               Header(X_OVH_CONSUMER, config.consumer_key),
               Header(X_OVH_SIGNATURE, hash(config, <<"DELETE">>, uri, <<>>, timestamp)),
               Agent >>,
            <<>>)

\* Mutant of get_unauthenticated_request: the consumer key is sent.
get_unauthenticated_request_Consumer(config, path) ==
    HttpRequest("GET", Uri(config, path),
        << Header(X_OVH_APPLICATION, config.application_key),
           Header(X_OVH_CONSUMER, config.consumer_key),
           Agent >>,
        <<>>)

\* The request Client::get_unauthenticated builds.
get_unauthenticated_request(config, path) ==
    HttpRequest("GET", Uri(config, path),
        << Header(X_OVH_APPLICATION, config.application_key), Agent >>,
        <<>>)

\* The request Client::post_unauthenticated builds.
post_unauthenticated_request(config, path, obj) ==
    HttpRequest("POST", Uri(config, path),
        << Header(CONTENT_TYPE, <<"application/json">>),
           Header(X_OVH_APPLICATION, config.application_key),
           Agent >>,
        to_json(obj))

\* What comes back: no response at all, or a status and a payload that can
\* be read or not, is UTF-8 or not, and is the JSON of the expected type or
\* not.
Payload(read, utf8, json, text) ==
    [read |-> read, utf8 |-> utf8, json |-> json, text |-> text]

Unreadable == Payload(FALSE, FALSE, FALSE, <<>>)
NotUtf8 == Payload(TRUE, FALSE, FALSE, <<>>)
Text(text) == Payload(TRUE, TRUE, FALSE, text)
Json(text) == Payload(TRUE, TRUE, TRUE, text)

PayloadSet == {Unreadable, NotUtf8, Text(<<"This call has not been granted">>), Json(<<"null">>)}

StatusSet == {200, 204, 301, 403, 404, 500}

Response(status, payload) == [status |-> status, payload |-> payload]

ResponseSet == {None} \cup {Some(Response(s, p)) : s \in StatusSet, p \in PayloadSet}

\* StatusCode::is_success
is_success(status) == status \in 200..299

\* The end of get, post and put on a status of success:
\* aggregate and serde_json::from_reader.
Deserialized(payload) ==
    IF ~payload.read THEN Err(Message("could not aggregate payload", None, None, None))
    ELSE IF ~payload.json
         THEN Err(Message("could not deserialize the payload", None, None, None))
         ELSE Ok(payload.text)

\* The error of get, get_unauthenticated and post_unauthenticated on another
\* status.
Failed(uri, status) ==
    Err(Message("could not execute the request", Some(uri), Some(status), None))

\* The error of post, put and delete on another status: the `?` on
\* aggregate, on read_to_end and on str::from_utf8 return their own error.
FailedWith(uri, status, payload) ==
    IF ~payload.read THEN Err(Message("read", None, None, None))
    ELSE IF ~payload.utf8 THEN Err(Message("Utf8Error", None, None, None))
         ELSE Err(Message("could not execute the request",
                          Some(uri), Some(status), Some(payload.text)))

NotSent == Err(Message("could not execute request", None, None, None))

\* What get, get_unauthenticated and post_unauthenticated return.
get_result(uri, response) ==
    IF response = None THEN NotSent
    ELSE IF ~is_success(response[1].status) THEN Failed(uri, response[1].status)
         ELSE Deserialized(response[1].payload)

\* What post and put return.
post_result(uri, response) ==
    IF response = None THEN NotSent
    ELSE IF ~is_success(response[1].status)
         THEN FailedWith(uri, response[1].status, response[1].payload)
         ELSE Deserialized(response[1].payload)

\* Mutant of delete_result: 404 is an error as any other status.
delete_result_Strict(uri, response) ==
    IF response = None THEN NotSent
    ELSE IF ~is_success(response[1].status)
         THEN FailedWith(uri, response[1].status, response[1].payload)
         ELSE Ok(<<>>)

\* What delete returns.
delete_result(uri, response) ==
    IF response = None THEN NotSent
    ELSE IF ~is_success(response[1].status) /\ 404 # response[1].status
         THEN FailedWith(uri, response[1].status, response[1].payload)
         ELSE Ok(<<>>)

\* ------------------------------------------------------------------------
\* State

VARIABLES
    command,            \* the command that is run and the tenant it is given
    config,             \* the configuration of the command (cfg::Ovh)
    calls,              \* the calls made on a Client, each with its request,
                        \* the response and what the call returned
    cloud,              \* provider: the tenants and their instances
    zoneNames,          \* provider: the names of the zones
    zoneRecords,        \* provider: the records of the zone, in id order
    nextId,             \* provider: the id of the next record created
    hidden,             \* provider: the ids of the records it serves without "id"
    not_in_cidrs,       \* argument of sync_records: the exclusion list
    pc,                 \* the request or step sync_records is about to do
    i,                  \* index of the running loop
    tenantIds,          \* list_tenants: ids
    tenants,            \* list_tenants: tenants
    instances,          \* sync_records: instances
    ids,                \* sync_records / list_records: ids
    records,            \* sync_records: records (cmd/domain.rs:103)
    records_to_delete,  \* sync_records: records_to_delete
    records_to_create,  \* sync_records: records_to_create
    iter,               \* the last iteration of the diff loop and what it pushed
    output,             \* list_records: the records read after the refresh
    zones,              \* list_zones: zones
    log,                \* the HTTP requests sent so far, with their outcome
    sent                \* the requests written to the connection, where the
                        \* model shows a request and its response apart

vars == <<command, config, calls, zones, cloud, zoneNames, zoneRecords, nextId, hidden, not_in_cidrs, pc, i, tenantIds, tenants,
          instances, ids, records, records_to_delete, records_to_create, iter,
          output, log, sent>>

provider == <<cloud, zoneRecords, nextId>>

\* What no step of a command changes.
setup == <<command, config, calls, zones, zoneNames, hidden, sent>>

\* A request as the provider sees it, and whether the call returned Ok.
Request(method, route, arg, body, ok) ==
    [method |-> method, route |-> route, arg |-> arg, body |-> body, ok |-> ok]

\* A command of the command line; `cloud instance list` is given a tenant.
Command(name, tenant) == [name |-> name, tenant |-> tenant]

\* A command is entered at `entry` with nothing fetched yet.
Entry(entry) ==
    /\ pc = entry
    /\ i = 1
    /\ tenantIds = <<>>
    /\ tenants = <<>>
    /\ instances = <<>>
    /\ ids = <<>>
    /\ records = <<>>
    /\ records_to_delete = <<>>
    /\ records_to_create = <<>>
    /\ iter = None
    /\ output = <<>>
    /\ zones = <<>>
    /\ log = <<>>
    /\ sent = <<>>

\* The configuration sync_records makes its client of.
Configured == Ovh(<<"https://eu.api.ovh.com/1.0">>, <<"ak">>, <<"s3">>, Some(<<"ck">>))

\* sync_records is entered with a client and no call made.
Start ==
    /\ command = Command("sync", 0)
    /\ zoneNames = <<zone>>
    /\ config = Configured
    /\ calls = <<>>
    /\ Entry("list_tenants")

\* A cloud and a zone of the provider, which serves every record with its id.
Init ==
    /\ cloud \in CloudSet
    /\ \E bodies \in SeqsUpTo(ZoneRecordSet, MaxRecords) :
         /\ zoneRecords = Numbered(bodies, 1)
         /\ nextId = Len(bodies) + 1
    /\ hidden = {}
    /\ not_in_cidrs \in SeqsUpTo(CidrSet, MaxCidrs)
    /\ Start

\* The same with a provider that serves some records without "id", which
\* Record (id: Option<i64>) accepts; sync_records is run without exclusions.
InitAnon ==
    /\ cloud \in CloudSet
    /\ \E bodies \in SeqsUpTo(ZoneRecordSet, MaxRecords) :
         /\ zoneRecords = Numbered(bodies, 1)
         /\ nextId = Len(bodies) + 1
         /\ hidden \in SUBSET (1..Len(bodies)) \ {{}}
    /\ not_in_cidrs = <<>>
    /\ Start

\* ------------------------------------------------------------------------
\* Where sync_records goes when a loop has nothing (left) to do

\* Mutant of AfterCreate: the zone is read again without the refresh.
AfterCreate_NoRefresh == "list_records"

AfterCreate == "refresh"

AfterDelete(to_create) == IF to_create # <<>> THEN "create" ELSE AfterCreate

\* Mutant of AfterDiff: the creations are applied first.
AfterDiff_CreateFirst(to_delete, to_create) ==
    IF to_create # <<>> THEN "create"
    ELSE IF to_delete # <<>> THEN "delete" ELSE AfterCreate

AfterDiff(to_delete, to_create) ==
    IF to_delete # <<>> THEN "delete" ELSE AfterDelete(to_create)

AfterRecords(insts) ==
    IF Iterations(insts) # <<>> THEN "diff" ELSE AfterDiff(<<>>, <<>>)

\* Mutant of Try: a request that failed is sent again.
Try_Again(ok, next) == IF ok THEN next ELSE [pc |-> pc, i |-> i]

\* Mutant of Try: the apply loops drop the error of a request and go on.
Try_Ignore(ok, next) ==
    IF ok \/ pc \in {"delete", "create"} THEN next ELSE [pc |-> "error", i |-> i]

\* Mutant of Try: the error of any request is dropped and the function goes on.
Try_Onward(ok, next) == next

\* The `?` after an awaited call: on Ok the function goes on to `next` (a pc
\* and a loop index), on Err it returns the error at once.
Try(ok, next) == IF ok THEN next ELSE [pc |-> "error", i |-> i]

\* Mutant of Loop: a loop ends after its first iteration.
Loop_Once(list, after) == [pc |-> after, i |-> 1]

\* The next iteration of a loop over `list`, or `after` when this one is the
\* last.
Loop(list, after) ==
    IF i = Len(list) THEN [pc |-> after, i |-> 1] ELSE [pc |-> pc, i |-> i + 1]

Goto(p) == [pc |-> p, i |-> 1]

\* Where list_tenants and list_instances return to: the command that called
\* them prints and ends, sync_records goes on.
AfterTenants(tenant_ids) ==
    IF command.name # "sync" THEN "done"
    ELSE IF tenant_ids = <<>> THEN "fetch_record_ids" ELSE "list_instances"

AfterInstances(ts) ==
    IF command.name # "sync" THEN Goto("done") ELSE Loop(ts, "fetch_record_ids")

\* ------------------------------------------------------------------------
\* Retrieve instances (cmd/domain.rs:81-90)

\* list_tenants: GET cloud/project
ListTenants ==
    /\ pc = "list_tenants"
    /\ \E ok \in BOOLEAN :
         LET next == Try(ok, Goto(IF Len(cloud) = 0 THEN AfterTenants(<<>>)
                                  ELSE "get_tenant"))
         IN  /\ log' = Append(log, Request("GET", "cloud/project", 0, None, ok))
             /\ tenantIds' = IF ok THEN [k \in 1..Len(cloud) |-> k] ELSE tenantIds
             /\ pc' = next.pc
             /\ i' = next.i
    /\ UNCHANGED <<setup, provider, not_in_cidrs, tenants, instances, ids, records,
                   records_to_delete, records_to_create, iter, output>>

\* list_tenants: GET cloud/project/{id}
GetTenant ==
    /\ pc = "get_tenant"
    /\ \E ok \in BOOLEAN :
         LET next == Try(ok, Loop(tenantIds, AfterTenants(tenantIds)))
         IN  /\ log' = Append(log, Request("GET", "cloud/project/{id}",
                                           tenantIds[i], None, ok))
             /\ tenants' = IF ok THEN Append(tenants, [project_id |-> tenantIds[i]])
                           ELSE tenants
             /\ pc' = next.pc
             /\ i' = next.i
    /\ UNCHANGED <<setup, provider, not_in_cidrs, tenantIds, instances, ids, records,
                   records_to_delete, records_to_create, iter, output>>

\* list_instances: GET cloud/project/{tenant}/instance
ListInstances ==
    /\ pc = "list_instances"
    /\ \E ok \in BOOLEAN :
         LET tenant == IF command.name = "sync" THEN tenants[i].project_id
                       ELSE command.tenant
             next   == Try(ok, AfterInstances(tenants))
         IN  /\ log' = Append(log, Request("GET", "cloud/project/{tenant}/instance",
                                           tenant, None, ok))
             /\ instances' = IF ok THEN instances \o cloud[tenant] ELSE instances
             /\ pc' = next.pc
             /\ i' = next.i
    /\ UNCHANGED <<setup, provider, not_in_cidrs, tenantIds, tenants, ids, records,
                   records_to_delete, records_to_create, iter, output>>

\* ------------------------------------------------------------------------
\* Retrieve records (cmd/domain.rs:96-120)

RecordIds(zr) == [k \in 1..Len(zr) |-> zr[k].id[1]]

\* The record of the zone with this id (the caller knows there is one).
RecordOf(zr, id) == zr[CHOOSE k \in 1..Len(zr) : zr[k].id = Some(id)]

\* The record deserialized from the body the provider serves for it.
Served(record) ==
    IF record.id[1] \in hidden THEN [record EXCEPT !.id = None] ELSE record

\* GET domain/zone/{zone}/record
FetchRecordIds ==
    /\ pc = "fetch_record_ids"
    /\ \E ok \in BOOLEAN :
         LET next == Try(ok, Goto(IF zoneRecords = <<>> THEN AfterRecords(instances)
                                  ELSE "fetch_record"))
         IN  /\ log' = Append(log, Request("GET", "domain/zone/{zone}/record", 0, None, ok))
             /\ ids' = IF ok THEN RecordIds(zoneRecords) ELSE ids
             /\ pc' = next.pc
             /\ i' = next.i
    /\ UNCHANGED <<setup, provider, not_in_cidrs, tenantIds, tenants, instances, records,
                   records_to_delete, records_to_create, iter, output>>

\* GET domain/zone/{zone}/record/{id}
FetchRecord ==
    /\ pc = "fetch_record"
    /\ \E ok \in BOOLEAN :
         LET next == Try(ok, Loop(ids, AfterRecords(instances)))
         IN  /\ log' = Append(log, Request("GET", "domain/zone/{zone}/record/{id}",
                                           ids[i], None, ok))
             /\ records' = IF ok THEN Append(records, Served(RecordOf(zoneRecords, ids[i])))
                           ELSE records
             /\ pc' = next.pc
             /\ i' = next.i
    /\ UNCHANGED <<setup, provider, not_in_cidrs, tenantIds, tenants, instances, ids,
                   records_to_delete, records_to_create, iter, output>>

\* ------------------------------------------------------------------------
\* Compute records diff (cmd/domain.rs:125-181): one iteration of the loops

DiffStep ==
    /\ pc = "diff"
    /\ LET it   == Iterations(instances)[i]
           d    == DiffAddress(records, not_in_cidrs, zone, it.name, it.address)
           next == Loop(Iterations(instances),
                        AfterDiff(records_to_delete \o d.delete,
                                  records_to_create \o d.create))
       IN  /\ records_to_delete' = records_to_delete \o d.delete
           /\ records_to_create' = records_to_create \o d.create
           /\ iter' = Some([name |-> it.name, address |-> it.address,
                            delete |-> d.delete, create |-> d.create])
           /\ pc' = next.pc
           /\ i' = next.i
    /\ UNCHANGED <<setup, provider, not_in_cidrs, tenantIds, tenants, instances, ids,
                   records, output, log>>

\* ------------------------------------------------------------------------
\* Apply diff (cmd/domain.rs:186-212)

RECURSIVE Without(_, _)
Without(zr, id) ==
    IF zr = <<>> THEN <<>>
    ELSE IF Head(zr).id = Some(id) THEN Without(Tail(zr), id)
    ELSE <<Head(zr)>> \o Without(Tail(zr), id)

\* Mutant of NoId: a record without id is an error.
NoId_Error(next) == [pc |-> "error", i |-> i]

\* `None => { pb.inc(); continue; }`: the loop goes on.
NoId(next) == next

\* One iteration of the loop over records_to_delete: nothing is sent for a
\* record without id; otherwise domain::delete_record, DELETE
\* domain/zone/{zone}/record/{id}, which the provider answers with 200 (the
\* record is removed) or 404 (there is none), both Ok for Client::delete, or
\* with an error.
DeleteStep ==
    /\ pc = "delete"
    /\ LET record == records_to_delete[i] IN
       IF record.id = None
       THEN LET next == NoId(Loop(records_to_delete, AfterDelete(records_to_create)))
            IN  /\ pc' = next.pc
                /\ i' = next.i
                /\ UNCHANGED <<log, zoneRecords>>
       ELSE \E ok \in BOOLEAN :
            LET next == Try(ok, Loop(records_to_delete, AfterDelete(records_to_create)))
            IN  /\ log' = Append(log, Request("DELETE", "domain/zone/{zone}/record/{id}",
                                              record.id[1], None, ok))
                /\ zoneRecords' = IF ok THEN Without(zoneRecords, record.id[1])
                                  ELSE zoneRecords
                /\ pc' = next.pc
                /\ i' = next.i
    /\ UNCHANGED <<setup, cloud, nextId, not_in_cidrs, tenantIds, tenants, instances, ids,
                   records, records_to_delete, records_to_create, iter, output>>

\* One iteration of the loop over records_to_create: domain::create_record,
\* POST domain/zone/{zone}/record.
CreateStep ==
    /\ pc = "create"
    /\ \E ok \in BOOLEAN :
         LET body == Serialize(records_to_create[i])
             next == Try(ok, Loop(records_to_create, AfterCreate))
         IN  /\ log' = Append(log, Request("POST", "domain/zone/{zone}/record", 0,
                                           Some(body), ok))
             /\ zoneRecords' = IF ok THEN Append(zoneRecords, Stored(nextId, zone, body))
                               ELSE zoneRecords
             /\ nextId' = IF ok THEN nextId + 1 ELSE nextId
             /\ pc' = next.pc
             /\ i' = next.i
    /\ UNCHANGED <<setup, cloud, not_in_cidrs, tenantIds, tenants, instances, ids,
                   records, records_to_delete, records_to_create, iter, output>>

\* ------------------------------------------------------------------------
\* Refresh records (cmd/domain.rs:217-230)

\* domain::refresh_records: POST domain/zone/{zone}/refresh
RefreshRecords ==
    /\ pc = "refresh"
    /\ \E ok \in BOOLEAN :
         LET next == Try(ok, Goto("list_records"))
         IN  /\ log' = Append(log, Request("POST", "domain/zone/{zone}/refresh", 0,
                                           None, ok))
             /\ pc' = next.pc
             /\ i' = next.i
    /\ UNCHANGED <<setup, provider, not_in_cidrs, tenantIds, tenants, instances, ids, records,
                   records_to_delete, records_to_create, iter, output>>

\* domain::list_records: GET domain/zone/{zone}/record
ListRecords ==
    /\ pc = "list_records"
    /\ \E ok \in BOOLEAN :
         LET next == Try(ok, Goto(IF zoneRecords = <<>> THEN "done" ELSE "get_record"))
         IN  /\ log' = Append(log, Request("GET", "domain/zone/{zone}/record", 0, None, ok))
             /\ ids' = IF ok THEN RecordIds(zoneRecords) ELSE ids
             /\ pc' = next.pc
             /\ i' = next.i
    /\ UNCHANGED <<setup, provider, not_in_cidrs, tenantIds, tenants, instances, records,
                   records_to_delete, records_to_create, iter, output>>

\* domain::list_records: GET domain/zone/{zone}/record/{id}
GetRecord ==
    /\ pc = "get_record"
    /\ \E ok \in BOOLEAN :
         LET next == Try(ok, Loop(ids, "done"))
         IN  /\ log' = Append(log, Request("GET", "domain/zone/{zone}/record/{id}",
                                           ids[i], None, ok))
             /\ output' = IF ok THEN Append(output, Served(RecordOf(zoneRecords, ids[i])))
                          ELSE output
             /\ pc' = next.pc
             /\ i' = next.i
    /\ UNCHANGED <<setup, provider, not_in_cidrs, tenantIds, tenants, instances, ids, records,
                   records_to_delete, records_to_create, iter>>

Next ==
    \/ ListTenants
    \/ GetTenant
    \/ ListInstances
    \/ FetchRecordIds
    \/ FetchRecord
    \/ DiffStep
    \/ DeleteStep
    \/ CreateStep
    \/ RefreshRecords
    \/ ListRecords
    \/ GetRecord

Spec == Init /\ [][Next]_vars

SpecAnon == InitAnon /\ [][Next]_vars

\* sync_records on one instance with one address, whose name may end with
\* the zone suffix twice or hold it in the middle; no exclusions.
LongNameSet ==
    NameSet \cup { <<"db-01", ZoneSuffix, ZoneSuffix>>, <<"db-01", ZoneSuffix, "-old">> }

InitNames ==
    /\ \E name \in LongNameSet, address \in AddressSet :
         cloud = << << [name |-> name, ip_addresses |-> <<address>>] >> >>
    /\ \E bodies \in SeqsUpTo(ZoneRecordSet, MaxRecords) :
         /\ zoneRecords = Numbered(bodies, 1)
         /\ nextId = Len(bodies) + 1
    /\ hidden = {}
    /\ not_in_cidrs = <<>>
    /\ Start

SpecNames == InitNames /\ [][Next]_vars

\* ------------------------------------------------------------------------
\* sync_records with each call of the client in two steps: the request is
\* written, and the task is suspended at the `.await` until the response is
\* there and handled.  The provider may serve records without id, and
\* sync_records is run without exclusions.

\* The steps of sync_records that call the client.
Calling ==
    /\ pc \in {"list_tenants", "get_tenant", "list_instances", "fetch_record_ids",
               "fetch_record", "delete", "create", "refresh", "list_records",
               "get_record"}
    /\ pc = "delete" => records_to_delete[i].id # None

\* The request the step at pc writes.
Written ==
    CASE pc = "list_tenants" -> [method |-> "GET", route |-> "cloud/project", arg |-> 0]
      [] pc = "get_tenant" ->
            [method |-> "GET", route |-> "cloud/project/{id}", arg |-> tenantIds[i]]
      [] pc = "list_instances" ->
            [method |-> "GET", route |-> "cloud/project/{tenant}/instance",
             arg |-> tenants[i].project_id]
      [] pc \in {"fetch_record_ids", "list_records"} ->
            [method |-> "GET", route |-> "domain/zone/{zone}/record", arg |-> 0]
      [] pc \in {"fetch_record", "get_record"} ->
            [method |-> "GET", route |-> "domain/zone/{zone}/record/{id}", arg |-> ids[i]]
      [] pc = "delete" ->
            [method |-> "DELETE", route |-> "domain/zone/{zone}/record/{id}",
             arg |-> records_to_delete[i].id[1]]
      [] pc = "create" ->
            [method |-> "POST", route |-> "domain/zone/{zone}/record", arg |-> 0]
      [] pc = "refresh" ->
            [method |-> "POST", route |-> "domain/zone/{zone}/refresh", arg |-> 0]

\* The requests written whose response has not been handled.
Outstanding == Len(sent) - Len(log)

\* Mutant of Awaited: a call does not wait for the call before it.
Awaited_Not == TRUE

\* `.await`: the task goes on when the call it made has returned.
Awaited == Outstanding = 0

\* The call writes its request.
Send ==
    /\ Awaited
    /\ Calling
    /\ sent' = Append(sent, Written)
    /\ UNCHANGED <<command, config, calls, zones, zoneNames, hidden, provider,
                   not_in_cidrs, pc, i, tenantIds, tenants, instances, ids, records,
                   records_to_delete, records_to_create, iter, output, log>>

\* The response is there (or the connection failed) and the call returns:
\* the step of sync_records that made it goes on.
Receive ==
    /\ Outstanding > 0
    /\ \/ ListTenants
       \/ GetTenant
       \/ ListInstances
       \/ FetchRecordIds
       \/ FetchRecord
       \/ DeleteStep
       \/ CreateStep
       \/ RefreshRecords
       \/ ListRecords
       \/ GetRecord

\* The steps that call nothing.
Compute ==
    /\ Awaited
    /\ ~Calling
    /\ \/ DiffStep
       \/ DeleteStep

InitAwait ==
    /\ cloud \in CloudSet
    /\ \E bodies \in SeqsUpTo(ZoneRecordSet, MaxRecords) :
         /\ zoneRecords = Numbered(bodies, 1)
         /\ nextId = Len(bodies) + 1
         /\ hidden \in SUBSET (1..Len(bodies))
    /\ not_in_cidrs = <<>>
    /\ Start

NextAwait ==
    \/ Send
    \/ Receive
    \/ Compute

\* Receive is fair where every request gets its response; Send and Compute
\* are, as the task runs whenever it can.
SpecAwait ==
    /\ InitAwait
    /\ [][NextAwait]_vars
    /\ WF_vars(Send)
    /\ WF_vars(Compute)
    /\ WF_vars(Receive)

\* ------------------------------------------------------------------------
\* The calls of a Client (ovh/mod.rs:102-415), one at a time: each draws its
\* arguments, the time and the response, and records what it sent and
\* returned.

PathSet == {<<"cloud/project">>, <<"domain/zone/", zone, "/record/", "1">>}
ObjSet == {Str(<<>>), Str(<<"a">>), Struct(<<"{\"fieldType\":\"A\"}">>)}
NowSet == {9, 10}

Exchange(op, path, obj, timestamp, request, response, result) ==
    [op |-> op, path |-> path, obj |-> obj, timestamp |-> timestamp,
     request |-> request, response |-> response, result |-> result]

\* What a call leaves alone.
caller == <<command, config, zones, zoneNames, hidden, provider, not_in_cidrs, pc, i, tenantIds, tenants,
             instances, ids, records, records_to_delete, records_to_create, iter,
             output, log, sent>>

InitClient ==
    /\ command = Command("client", 0)
    /\ zoneNames = <<>>
    /\ config \in {c \in OvhSet : try_from(c).ok}
    /\ calls = <<>>
    /\ cloud = <<>>
    /\ zoneRecords = <<>>
    /\ nextId = 1
    /\ hidden = {}
    /\ not_in_cidrs = <<>>
    /\ Entry("client")

get ==
    /\ calls = <<>>
    /\ \E path \in PathSet, timestamp \in NowSet, response \in ResponseSet :
         LET client  == try_from(config).value[1]
             request == get_request(client, path, timestamp)
         IN  calls' = <<Exchange("get", path, <<>>, Some(timestamp), request, response,
                                 get_result(request.uri, response))>>
    /\ UNCHANGED caller

post ==
    /\ calls = <<>>
    /\ \E path \in PathSet, obj \in ObjSet, timestamp \in NowSet, response \in ResponseSet :
         LET client  == try_from(config).value[1]
             request == post_request(client, path, obj, timestamp)
         IN  calls' = <<Exchange("post", path, obj, Some(timestamp), request, response,
                                 post_result(request.uri, response))>>
    /\ UNCHANGED caller

put ==
    /\ calls = <<>>
    /\ \E path \in PathSet, obj \in ObjSet, timestamp \in NowSet, response \in ResponseSet :
         LET client  == try_from(config).value[1]
             request == put_request(client, path, obj, timestamp)
         IN  calls' = <<Exchange("put", path, obj, Some(timestamp), request, response,
                                 post_result(request.uri, response))>>
    /\ UNCHANGED caller

\* delete, called once, or once more on the path of a delete that returned
\* Ok.
delete ==
    /\ \/ calls = <<>>
       \/ Len(calls) = 1 /\ calls[1].op = "delete" /\ calls[1].result.ok
    /\ \E path \in PathSet, timestamp \in NowSet, response \in ResponseSet :
         LET client  == try_from(config).value[1]
             request == delete_request(client, path, timestamp)
         IN  /\ calls # <<>> => path = calls[1].path
             /\ calls' = Append(calls,
                                Exchange("delete", path, <<>>, Some(timestamp), request,
                                         response, delete_result(request.uri, response)))
    /\ UNCHANGED caller

get_unauthenticated ==
    /\ calls = <<>>
    /\ \E path \in PathSet, response \in ResponseSet :
         LET client  == try_from(config).value[1]
             request == get_unauthenticated_request(client, path)
         IN  calls' = <<Exchange("get_unauthenticated", path, <<>>, None, request, response,
                                 get_result(request.uri, response))>>
    /\ UNCHANGED caller

post_unauthenticated ==
    /\ calls = <<>>
    /\ \E path \in PathSet, obj \in ObjSet, response \in ResponseSet :
         LET client  == try_from(config).value[1]
             request == post_unauthenticated_request(client, path, obj)
         IN  calls' = <<Exchange("post_unauthenticated", path, obj, None, request, response,
                                 get_result(request.uri, response))>>
    /\ UNCHANGED caller

NextClient ==
    \/ get
    \/ post
    \/ put
    \/ delete
    \/ get_unauthenticated
    \/ post_unauthenticated

SpecClient == InitClient /\ [][NextClient]_vars

\* ------------------------------------------------------------------------
\* The commands that list (cmd/cloud.rs, cmd/domain.rs:19-63) and connect
\* (cmd/mod.rs:377-421): each makes its client of the configuration, calls
\* one collector or the credential request, and prints.

ZoneNameSet == {zone, "example.org", "example.net"}

\* The lists of zone names of at most n names, none twice.
ZoneNames(n) ==
    {names \in SeqsUpTo(ZoneNameSet, n) :
        \A a, b \in 1..Len(names) : a # b => names[a] # names[b]}

Unconfigured == [Configured EXCEPT !.consumer_key = None]

InitCommands ==
    /\ config \in {Configured, Unconfigured}
    /\ calls = <<>>
    /\ cloud \in CloudSet
    /\ zoneNames \in ZoneNames(MaxZones)
    /\ \E bodies \in SeqsUpTo(ZoneRecordSet, MaxRecords) :
         /\ zoneRecords = Numbered(bodies, 1)
         /\ nextId = Len(bodies) + 1
    /\ hidden = {}
    /\ not_in_cidrs = <<>>
    /\ \/ /\ command \in {Command("tenants", 0), Command("instances", 1)}
          /\ cloud # <<>> /\ zoneNames = <<>> /\ zoneRecords = <<>>
       \/ /\ command = Command("zones", 0)
          /\ cloud = <<>> /\ zoneRecords = <<>>
       \/ /\ command = Command("records", 0)
          /\ cloud = <<>> /\ zoneNames = <<zone>>
       \/ /\ command = Command("connect", 0)
          /\ cloud = <<>> /\ zoneNames = <<>> /\ zoneRecords = <<>>
    /\ Entry("configure")

\* Where a command goes once it has its client.
EntryOf(name) ==
    CASE name = "tenants" -> "list_tenants"
      [] name = "instances" -> "list_instances"
      [] name = "zones" -> "list_zones"
      [] name = "records" -> "list_records"
      [] name = "connect" -> "connect"
      [] name = "sync" -> "list_tenants"
      [] name = "refresh" -> "refresh_records"
      [] name = "delete_record" -> "delete_record"
      [] name = "servers" -> "list_servers"
      [] name = "loadbalancers" -> "list_loadbalancers"
      [] name = "loadbalancer_create" -> "create_loadbalancer"
      [] name = "loadbalancer_delete" -> "delete_loadbalancer"

\* Client::from(ClientConfiguration::try_from(config).map_err(..)?)
Configure ==
    /\ pc = "configure"
    /\ LET next == Try(try_from(config).ok, Goto(EntryOf(command.name)))
       IN  /\ pc' = next.pc
           /\ i' = next.i
    /\ UNCHANGED <<setup, provider, not_in_cidrs, tenantIds, tenants, instances, ids,
                   records, records_to_delete, records_to_create, iter, output, log>>

\* list_zones: GET domain/zone
ListZones ==
    /\ pc = "list_zones"
    /\ \E ok \in BOOLEAN :
         LET next == Try(ok, Goto(IF zoneNames = <<>> THEN "done" ELSE "get_zone"))
         IN  /\ log' = Append(log, Request("GET", "domain/zone", 0, None, ok))
             /\ ids' = IF ok THEN zoneNames ELSE ids
             /\ pc' = next.pc
             /\ i' = next.i
    /\ UNCHANGED <<setup, provider, not_in_cidrs, tenantIds, tenants, instances,
                   records, records_to_delete, records_to_create, iter, output>>

\* list_zones: GET domain/zone/{id}
GetZone ==
    /\ pc = "get_zone"
    /\ \E ok \in BOOLEAN :
         LET next == Try(ok, Loop(ids, "done"))
         IN  /\ log' = Append(log, Request("GET", "domain/zone/{id}", ids[i], None, ok))
             /\ zones' = IF ok THEN Append(zones, [name |-> ids[i]]) ELSE zones
             /\ pc' = next.pc
             /\ i' = next.i
    /\ UNCHANGED <<command, config, calls, zoneNames, hidden, provider, not_in_cidrs,
                   tenantIds, tenants, instances, ids, records, records_to_delete,
                   records_to_create, iter, output, sent>>

\* The credential connect asks for, and the validation the provider answers
\* with.
Credential ==
    Struct(<<"{\"accessRules\":[GET /*,POST /*,PUT /*,DELETE /*],\"redirection\":..}">>)

CredentialValidation ==
    Json(<<"{\"validationUrl\":\"", "https://eu.api.ovh.com/auth/?credentialToken=t",
           "\",\"consumerKey\":\"", "ck", "\",\"state\":\"", "pendingValidation", "\"}">>)

\* What connect prints of a CredentialValidation.
Printed(text) == <<text[2], text[4]>>

ConnectResponseSet ==
    {None, Some(Response(200, CredentialValidation)),
     Some(Response(403, Text(<<"This call has not been granted">>)))}

\* connect: post_unauthenticated("auth/credential", ..) and the two println!
Connect ==
    /\ pc = "connect"
    /\ \E response \in ConnectResponseSet :
         LET client  == try_from(config).value[1]
             request == post_unauthenticated_request(client, <<"auth/credential">>,
                                                     Credential)
             result  == get_result(request.uri, response)
             next    == Try(result.ok, Goto("done"))
         IN  /\ calls' = Append(calls,
                                Exchange("post_unauthenticated", <<"auth/credential">>,
                                         Credential, None, request, response, result))
             /\ log' = Append(log, Request("POST", "auth/credential", 0,
                                           Some(request.body), result.ok))
             /\ output' = IF result.ok THEN Printed(result.value[1]) ELSE output
             /\ pc' = next.pc
             /\ i' = next.i
    /\ UNCHANGED <<command, config, zones, zoneNames, hidden, provider, not_in_cidrs,
                   tenantIds, tenants, instances, ids, records, records_to_delete,
                   records_to_create, iter, sent>>

NextCommands ==
    \/ Configure
    \/ ListTenants
    \/ GetTenant
    \/ ListInstances
    \/ ListZones
    \/ GetZone
    \/ ListRecords
    \/ GetRecord
    \/ Connect

SpecCommands == InitCommands /\ [][NextCommands]_vars

\* ------------------------------------------------------------------------
\* Every command that makes its client with ClientConfiguration::try_from
\* and sends authenticated requests, from its configuration on.

\* cmd::domain::refresh_records (cmd/domain.rs:233-242)
refresh_records ==
    /\ pc = "refresh_records"
    /\ \E ok \in BOOLEAN :
         LET next == Try(ok, Goto("done"))
         IN  /\ log' = Append(log, Request("POST", "domain/zone/{zone}/refresh", 0,
                                           None, ok))
             /\ pc' = next.pc
             /\ i' = next.i
    /\ UNCHANGED <<setup, provider, not_in_cidrs, tenantIds, tenants, instances, ids, records,
                   records_to_delete, records_to_create, iter, output>>

\* cmd::domain::delete_record (cmd/domain.rs:244-253) of the record `id`
\* given on the command line.
delete_record ==
    /\ pc = "delete_record"
    /\ \E id \in 1..MaxRecords, ok \in BOOLEAN :
         LET next == Try(ok, Goto("done"))
         IN  /\ log' = Append(log, Request("DELETE", "domain/zone/{zone}/record/{id}", id,
                                           None, ok))
             /\ zoneRecords' = IF ok THEN Without(zoneRecords, id) ELSE zoneRecords
             /\ pc' = next.pc
             /\ i' = next.i
    /\ UNCHANGED <<setup, cloud, nextId, not_in_cidrs, tenantIds, tenants, instances, ids,
                   records, records_to_delete, records_to_create, iter, output>>

\* The first request of a collector: the GET of the ids at `list`, of which
\* the provider has up to `max`; the objects are then fetched at pc `item`.
ListIds(list, arg, max, item) ==
    \E ok \in BOOLEAN, n \in 0..max :
        LET next == Try(ok, Goto(IF n = 0 THEN "done" ELSE item))
        IN  /\ log' = Append(log, Request("GET", list, arg, None, ok))
            /\ ids' = IF ok THEN [k \in 1..n |-> k] ELSE ids
            /\ pc' = next.pc
            /\ i' = next.i

\* One iteration of the loop of a collector: the GET of the object ids[i].
GetItem(item) ==
    \E ok \in BOOLEAN :
        LET next == Try(ok, Loop(ids, "done"))
        IN  /\ log' = Append(log, Request("GET", item, ids[i], None, ok))
            /\ pc' = next.pc
            /\ i' = next.i

\* ovh::dedicated::server::list_servers: GET dedicated/server
list_servers ==
    /\ pc = "list_servers"
    /\ ListIds("dedicated/server", 0, MaxServers, "get_server")
    /\ UNCHANGED <<setup, provider, not_in_cidrs, tenantIds, tenants, instances, records,
                   records_to_delete, records_to_create, iter, output>>

\* list_servers: GET dedicated/server/{id}
get_server ==
    /\ pc = "get_server"
    /\ GetItem("dedicated/server/{id}")
    /\ UNCHANGED <<setup, provider, not_in_cidrs, tenantIds, tenants, instances, ids, records,
                   records_to_delete, records_to_create, iter, output>>

\* ovh::cloud::loadbalancer::list: GET cloud/project/{tenant}/loadbalancer
list_loadbalancers ==
    /\ pc = "list_loadbalancers"
    /\ ListIds("cloud/project/{tenant}/loadbalancer", command.tenant, MaxLoadBalancers,
               "get_loadbalancer")
    /\ UNCHANGED <<setup, provider, not_in_cidrs, tenantIds, tenants, instances, records,
                   records_to_delete, records_to_create, iter, output>>

\* list: GET cloud/project/{tenant}/loadbalancer/{id}
get_loadbalancer ==
    /\ pc = "get_loadbalancer"
    /\ GetItem("cloud/project/{tenant}/loadbalancer/{id}")
    /\ UNCHANGED <<setup, provider, not_in_cidrs, tenantIds, tenants, instances, ids, records,
                   records_to_delete, records_to_create, iter, output>>

\* cmd::loadbalancer::create: POST cloud/project/{tenant}/loadbalancer
create_loadbalancer ==
    /\ pc = "create_loadbalancer"
    /\ \E ok \in BOOLEAN :
         LET next == Try(ok, Goto("done"))
         IN  /\ log' = Append(log, Request("POST", "cloud/project/{tenant}/loadbalancer",
                                           command.tenant, None, ok))
             /\ pc' = next.pc
             /\ i' = next.i
    /\ UNCHANGED <<setup, provider, not_in_cidrs, tenantIds, tenants, instances, ids, records,
                   records_to_delete, records_to_create, iter, output>>

\* cmd::loadbalancer::delete: DELETE cloud/project/{tenant}/loadbalancer/{id}
\* of the id given on the command line, then the list.
delete_loadbalancer ==
    /\ pc = "delete_loadbalancer"
    /\ \E id \in 1..MaxLoadBalancers, ok \in BOOLEAN :
         LET next == Try(ok, Goto("list_loadbalancers"))
         IN  /\ log' = Append(log, Request("DELETE",
                                           "cloud/project/{tenant}/loadbalancer/{id}", id,
                                           None, ok))
             /\ pc' = next.pc
             /\ i' = next.i
    /\ UNCHANGED <<setup, provider, not_in_cidrs, tenantIds, tenants, instances, ids, records,
                   records_to_delete, records_to_create, iter, output>>

\* The commands of the authenticated transport.
AuthenticatedSet ==
    {"tenants", "instances", "servers", "zones", "records", "sync", "delete_record",
     "refresh", "loadbalancers", "loadbalancer_create", "loadbalancer_delete"}

InitAuthenticated ==
    /\ config \in {Configured, Unconfigured}
    /\ calls = <<>>
    /\ hidden = {}
    /\ not_in_cidrs = <<>>
    /\ \E name \in AuthenticatedSet :
         /\ command = Command(name, IF name \in {"tenants", "servers", "zones", "records",
                                                  "sync", "delete_record", "refresh"}
                                    THEN 0 ELSE 1)
         /\ IF name \in {"tenants", "instances"} THEN cloud \in CloudSet \ {<<>>}
            ELSE IF name = "sync" THEN cloud \in {c \in CloudSet : Len(c) = 1}
            ELSE cloud = <<>>
         /\ IF name = "zones" THEN zoneNames \in ZoneNames(MaxZones)
            ELSE IF name \in {"records", "sync", "delete_record", "refresh"}
                 THEN zoneNames = <<zone>>
            ELSE zoneNames = <<>>
         /\ \E bodies \in SeqsUpTo(ZoneRecordSet, MaxRecords) :
              /\ name \notin {"records", "sync", "delete_record", "refresh"} => bodies = <<>>
              /\ zoneRecords = Numbered(bodies, 1)
              /\ nextId = Len(bodies) + 1
    /\ Entry("configure")

NextAuthenticated ==
    \/ Configure
    \/ Next
    \/ ListZones
    \/ GetZone
    \/ refresh_records
    \/ delete_record
    \/ list_servers
    \/ get_server
    \/ list_loadbalancers
    \/ get_loadbalancer
    \/ create_loadbalancer
    \/ delete_loadbalancer

SpecAuthenticated == InitAuthenticated /\ [][NextAuthenticated]_vars

\* ------------------------------------------------------------------------
\* Properties

\* The diff loop has run to its end (and the command has not failed since).
DiffDone == pc \in {"delete", "create", "refresh", "list_records", "get_record", "done"}

\* The address lies in some CIDR of the exclusion list.
Excluded(address) ==
    \E k \in 1..Len(not_in_cidrs) : CidrContains(not_in_cidrs[k], address.ip)

\* Some record of the sequence targets the address.
Targeted(recs, address) ==
    \E k \in 1..Len(recs) : recs[k].target = to_string(address.ip)

\* sub is name without its trailing repetitions of the zone suffix.
Stripped(sub, name) ==
    /\ Len(sub) <= Len(name)
    /\ sub = SubSeq(name, 1, Len(sub))
    /\ sub = <<>> \/ sub[Len(sub)] # ZoneSuffix
    /\ \A k \in (Len(sub) + 1)..Len(name) : name[k] = ZoneSuffix

\* The record the sync wants for an address of an instance.
Desired(r, name, address) ==
    /\ r.field_type = (IF address.version = 4 THEN "A" ELSE "AAAA")
    /\ Stripped(r.sub_domain, name)
    /\ r.zone = zone
    /\ r.target = to_string(address.ip)

\* The address is one the sync manages: public, not excluded, version 4 or 6.
Managed(address) ==
    /\ address.kind = "public"
    /\ ~Excluded(address)
    /\ address.version \in {4, 6}

\* C1: after a successful sync, the diff of the same instances and exclusions
\* against the records read back from the zone is empty.
C1_Idempotence ==
    pc = "done" =>
        LET again == Diff(Iterations(instances), output, not_in_cidrs, zone)
        IN  again.delete = <<>> /\ again.create = <<>>

\* C2: after a successful sync, the zone holds the desired record of every
\* managed address of every instance.
C2_FinalState ==
    pc = "done" =>
        \A k \in 1..Len(Iterations(instances)) :
            LET it == Iterations(instances)[k] IN
            Managed(it.address) =>
                \E n \in 1..Len(zoneRecords) : Desired(zoneRecords[n], it.name, it.address)

\* C3 scenario: the only instance is web-01 with the single public v4 address
\* 198.51.100.7 (not excluded), the only record is web-01 -> 198.51.100.9.
C3_Scenario ==
    /\ DiffDone
    /\ instances = << [name |-> <<"web-01">>,
                       ip_addresses |-> <<IpAddress(Ip7, "public", 4)>>] >>
    /\ ~Excluded(IpAddress(Ip7, "public", 4))
    /\ Len(records) = 1
    /\ records[1].sub_domain = <<"web-01">>
    /\ records[1].target = "198.51.100.9"

C3_New == [id |-> None, field_type |-> "A", sub_domain |-> <<"web-01">>,
           ttl |-> None, zone |-> "example.com", target |-> "198.51.100.7"]

\* C3 as stated: in the replace scenario the diff is toDelete = [the old
\* record targeting .9] and toCreate = [the new A record targeting .7].
C3_Original ==
    C3_Scenario =>
        /\ records_to_delete = <<records[1]>>
        /\ records_to_create = <<C3_New>>

\* C3 amended: in the replace scenario the diff is toDelete = [] and toCreate =
\* [the new A record targeting .7]; in general every record put in toDelete is
\* an existing record whose target is the value of an address of a current
\* instance, so a record of the instance's subdomain that targets an address
\* the instance no longer has is left in the zone.
C3_Replace ==
    /\ C3_Scenario =>
        /\ records_to_delete = <<>>
        /\ records_to_create = <<C3_New>>
    /\ \A k \in 1..Len(records_to_delete) :
        /\ \E n \in 1..Len(records) : records[n] = records_to_delete[k]
        /\ \E n \in 1..Len(Iterations(instances)) :
             to_string(Iterations(instances)[n].address.ip) = records_to_delete[k].target

C3_Witness ==
    /\ C3_Scenario
    /\ pc = "done"
    /\ \E k \in 1..Len(zoneRecords) : zoneRecords[k].target = "198.51.100.9"
    /\ \E k \in 1..Len(zoneRecords) : zoneRecords[k].target = "198.51.100.7"

\* C4 as stated: an address whose version is neither 4 nor 6 contributes
\* nothing to toDelete and nothing to toCreate, whatever its kind, excluded or
\* not, targeted by a record or not.
C4_Original ==
    (iter # None /\ iter[1].address.version \notin {4, 6}) =>
        iter[1].delete = <<>> /\ iter[1].create = <<>>

\* C4 amended: an address whose version is neither 4 nor 6 never contributes a
\* record to toCreate, and contributes nothing to toDelete when it is public
\* and lies in no excluded CIDR; when it is not public or lies in an excluded
\* CIDR, an existing record that targets its value is put in toDelete.
C4_VersionFiltering ==
    (iter # None /\ iter[1].address.version \notin {4, 6}) =>
        LET a == iter[1].address IN
        /\ iter[1].create = <<>>
        /\ (a.kind = "public" /\ ~Excluded(a)) => iter[1].delete = <<>>
        /\ ((a.kind # "public" \/ Excluded(a)) /\ Targeted(records, a)) =>
               /\ Len(iter[1].delete) = 1
               /\ iter[1].delete[1].target = to_string(a.ip)
        /\ ~Targeted(records, a) => iter[1].delete = <<>>

C4_Witness ==
    /\ iter # None
    /\ iter[1].address.version = 5
    /\ iter[1].address.kind = "public"
    /\ ~Excluded(iter[1].address)
    /\ Targeted(records, iter[1].address)
    /\ iter[1].delete = <<>>
    /\ iter[1].create = <<>>

\* C5: a managed address (public, not excluded, version 4 or 6) that no
\* existing record targets contributes exactly one record to toCreate, the
\* desired one with id and ttl unset, and nothing to toDelete.
C5_Create ==
    (iter # None /\ Managed(iter[1].address) /\ ~Targeted(records, iter[1].address)) =>
        /\ iter[1].delete = <<>>
        /\ Len(iter[1].create) = 1
        /\ Desired(iter[1].create[1], iter[1].name, iter[1].address)
        /\ iter[1].create[1].id = None
        /\ iter[1].create[1].ttl = None
        /\ (iter[1].name = <<"web-01">> /\ iter[1].address = IpAddress(Ip7, "public", 4))
               => iter[1].create = <<C3_New>>

C5_Witness ==
    /\ iter # None
    /\ Managed(iter[1].address)
    /\ ~Targeted(records, iter[1].address)
    /\ iter[1].address.version = 6
    /\ iter[1].name = <<"db-01", ZoneSuffix>>
    /\ iter[1].create = << [id |-> None, field_type |-> "AAAA", sub_domain |-> <<"db-01">>,
                            ttl |-> None, zone |-> "example.com",
                            target |-> "2001:db8::1"] >>
    /\ records # <<>>

\* C6: an address that is not public contributes no record to toCreate; when
\* an existing record targets it, that record is what it contributes to
\* toDelete, and otherwise it contributes nothing.
C6_PublicToPrivate ==
    (iter # None /\ iter[1].address.kind # "public") =>
        /\ iter[1].create = <<>>
        /\ Targeted(records, iter[1].address) =>
               /\ Len(iter[1].delete) = 1
               /\ \E n \in 1..Len(records) : records[n] = iter[1].delete[1]
               /\ iter[1].delete[1].target = to_string(iter[1].address.ip)
        /\ ~Targeted(records, iter[1].address) => iter[1].delete = <<>>

C6_Witness ==
    /\ iter # None
    /\ iter[1].address.kind = "private"
    /\ iter[1].address.version = 4
    /\ Targeted(records, iter[1].address)
    /\ Len(iter[1].delete) = 1
    /\ not_in_cidrs = <<>>

\* C7: a public address inside some CIDR of the exclusion list contributes no
\* record to toCreate, and an existing record that targets it is put in
\* toDelete; with an empty exclusion list no address is treated as excluded.
C7_Exclusion ==
    /\ (iter # None /\ iter[1].address.kind = "public" /\ Excluded(iter[1].address)) =>
        /\ iter[1].create = <<>>
        /\ Targeted(records, iter[1].address) =>
               /\ Len(iter[1].delete) = 1
               /\ \E n \in 1..Len(records) : records[n] = iter[1].delete[1]
               /\ iter[1].delete[1].target = to_string(iter[1].address.ip)
        /\ ~Targeted(records, iter[1].address) => iter[1].delete = <<>>
    /\ (iter # None /\ not_in_cidrs = <<>> /\ iter[1].address.kind = "public"
          /\ iter[1].address.version \in {4, 6}) =>
        /\ ~Targeted(records, iter[1].address) => Len(iter[1].create) = 1
        /\ iter[1].delete # <<>> => Len(iter[1].create) = 1

C7_Witness ==
    /\ iter # None
    /\ iter[1].address.kind = "public"
    /\ iter[1].address.version = 4
    /\ Len(not_in_cidrs) = 2
    /\ ~CidrContains(not_in_cidrs[1], iter[1].address.ip)
    /\ CidrContains(not_in_cidrs[2], iter[1].address.ip)
    /\ Targeted(records, iter[1].address)
    /\ Len(iter[1].delete) = 1
    /\ iter[1].create = <<>>

\* Every record the state holds.
Elements(f) == { f[k] : k \in DOMAIN f }
AllRecords ==
    Elements(zoneRecords) \cup Elements(records) \cup Elements(output)
    \cup Elements(records_to_delete) \cup Elements(records_to_create)

\* Two records with id and ttl left aside.
SameKey(a, b) == [a EXCEPT !.id = None, !.ttl = None] = [b EXCEPT !.id = None, !.ttl = None]

\* C8: two records are equal exactly when fieldType, subDomain, zone and
\* target agree, whatever id and ttl; equality is reflexive, symmetric and
\* transitive.
C8_RecordEquality ==
    /\ \A a, b \in AllRecords : RecordEq(a, b) <=> SameKey(a, b)
    /\ \A a \in AllRecords : RecordEq(a, a)
    /\ \A a, b \in AllRecords : RecordEq(a, b) => RecordEq(b, a)
    /\ \A a, b, c \in AllRecords : (RecordEq(a, b) /\ RecordEq(b, c)) => RecordEq(a, c)

C8_Witness ==
    /\ \E a \in Elements(records), b \in Elements(records_to_create) :
         a.id # b.id /\ a.ttl # b.ttl /\ RecordEq(a, b)
    /\ \E a, b \in Elements(records) : a.id # b.id /\ ~RecordEq(a, b) /\ a.target = b.target

\* The requests of the apply phase in the log.
IsDelete(r) == r.method = "DELETE"
IsCreate(r) == r.method = "POST" /\ r.route = "domain/zone/{zone}/record"
HasId(record) == record.id # None

\* C9: the DELETEs sent are those of the records of toDelete, in its order;
\* the POSTs sent are those of the records of toCreate, in its order; no
\* DELETE follows a POST, and the first POST follows the last DELETE.
C9_ApplierOrdering ==
    LET dels == SelectSeq(log, IsDelete)
        cres == SelectSeq(log, IsCreate)
        want == SelectSeq(records_to_delete, HasId)
    IN  /\ Len(dels) <= Len(want)
        /\ \A k \in 1..Len(dels) : dels[k].arg = want[k].id[1]
        /\ Len(cres) <= Len(records_to_create)
        /\ \A k \in 1..Len(cres) : cres[k].body = Some(Serialize(records_to_create[k]))
        /\ cres # <<>> => Len(dels) = Len(want)
        /\ \A a, b \in 1..Len(log) : (a < b /\ IsCreate(log[a])) => ~IsDelete(log[b])
        /\ pc \in {"refresh", "list_records", "get_record", "done"} =>
               Len(dels) = Len(want) /\ Len(cres) = Len(records_to_create)

C9_Witness ==
    /\ pc = "done"
    /\ Len(SelectSeq(log, IsDelete)) = 2
    /\ Len(SelectSeq(log, IsCreate)) = 2
    /\ records_to_delete[1] # records_to_delete[2]
    /\ records_to_create[1] # records_to_create[2]

\* The zone after the successful requests of a log, starting from zr with
\* next the id of the next record.
RECURSIVE Replay(_, _, _)
Replay(zr, next, l) ==
    IF l = <<>> THEN zr
    ELSE LET r == Head(l) IN
         IF r.ok /\ IsDelete(r) THEN Replay(Without(zr, r.arg), next, Tail(l))
         ELSE IF r.ok /\ IsCreate(r)
              THEN Replay(Append(zr, Stored(next, zone, r.body[1])), next + 1, Tail(l))
              ELSE Replay(zr, next, Tail(l))

\* C10: a failed delete or create request is the last request of the sync,
\* which ends with an error; the zone is what the requests before it made of
\* it.
C10_FailFast ==
    \A k \in 1..Len(log) :
        ((IsDelete(log[k]) \/ IsCreate(log[k])) /\ ~log[k].ok) =>
            /\ k = Len(log)
            /\ pc = "error"
            /\ zoneRecords = Replay(records, Len(records) + 1, SubSeq(log, 1, k - 1))

C10_Witness ==
    /\ pc = "error"
    /\ Len(log) >= 2
    /\ IsCreate(log[Len(log)]) /\ ~log[Len(log)].ok
    /\ IsCreate(log[Len(log) - 1]) /\ log[Len(log) - 1].ok
    /\ \E k \in 1..Len(log) : IsDelete(log[k]) /\ log[k].ok
    /\ zoneRecords # records

\* The refresh of the zone and the requests that read the records.
IsRefresh(r) == r.method = "POST" /\ r.route = "domain/zone/{zone}/refresh"
IsRead(r) ==
    /\ r.method = "GET"
    /\ r.route \in {"domain/zone/{zone}/record", "domain/zone/{zone}/record/{id}"}

\* C11: a sync sends at most one refresh; no DELETE and no POST of a record
\* follows it, and what follows it are only the GETs of list_records; a sync
\* that ends well has sent exactly one, after the DELETEs of every record of
\* toDelete and the POSTs of every record of toCreate, and before the one
\* GET of the ids and the GET of each record that list_records makes.
C11_RefreshPlacement ==
    LET at == {k \in 1..Len(log) : IsRefresh(log[k])}
    IN  /\ Cardinality(at) <= 1
        /\ \A k \in at :
             /\ \A b \in (k + 1)..Len(log) : IsRead(log[b])
             /\ Len(SelectSeq(SubSeq(log, 1, k - 1), IsDelete))
                    = Len(SelectSeq(records_to_delete, HasId))
             /\ Len(SelectSeq(SubSeq(log, 1, k - 1), IsCreate)) = Len(records_to_create)
             /\ Len(SelectSeq(SubSeq(log, 1, k - 1), IsRead)) = 1 + Len(records)
        /\ pc \in {"list_records", "get_record", "done"} =>
             /\ Cardinality(at) = 1
             /\ \A k \in at : log[k].ok
        /\ pc = "done" =>
             \A k \in at : Len(log) - k = 1 + Len(output)

C11_Witness ==
    /\ pc = "done"
    /\ \E k \in 2..(Len(log) - 2) :
         /\ IsRefresh(log[k])
         /\ IsCreate(log[k - 1])
         /\ IsRead(log[k + 1]) /\ IsRead(log[k + 2])
    /\ \E k \in 1..Len(log) : IsDelete(log[k])

\* C12: the iteration of the loop over toDelete on a record without id sends
\* no request, leaves the zone as it is and does not end the sync with an
\* error: the loop goes on with the next record, or the apply phase goes on
\* after the last one.
C12_NoIdNoop ==
    [][(pc = "delete" /\ records_to_delete[i].id = None) =>
           /\ log' = log
           /\ zoneRecords' = zoneRecords
           /\ pc' # "error"
           /\ IF i < Len(records_to_delete)
              THEN pc' = "delete" /\ i' = i + 1
              ELSE pc' = AfterDelete(records_to_create)]_vars

C12_Witness ==
    /\ pc = "done"
    /\ Len(records_to_delete) = 2
    /\ records_to_delete[1].id = None
    /\ records_to_delete[2].id # None
    /\ \E k \in 1..Len(log) : IsDelete(log[k]) /\ log[k].arg = records_to_delete[2].id[1]
    /\ Len(SelectSeq(log, IsDelete)) = 1
    /\ Len(SelectSeq(log, IsCreate)) = Len(records_to_create)
    /\ records_to_create # <<>>

\* The calls made with this method of Client.
CallsOf(ops) == {k \in 1..Len(calls) : calls[k].op \in ops}

\* The status of a response that came.
Answered(call) == call.response # None
StatusOf(call) == call.response[1].status
PayloadOf(call) == call.response[1].payload

\* C13: a delete that got a response returns Ok exactly when the status is
\* one of 200..299 or is 404; so a delete of a path and then a second delete
\* of the same path that the server answers with 404 both return Ok.
C13_DeleteIdempotent ==
    /\ \A k \in CallsOf({"delete"}) :
         /\ ~Answered(calls[k]) => ~calls[k].result.ok
         /\ Answered(calls[k]) =>
                (calls[k].result.ok <=>
                    (StatusOf(calls[k]) \in 200..299 \/ StatusOf(calls[k]) = 404))
    /\ (/\ Len(calls) = 2
        /\ calls[1].op = "delete" /\ calls[2].op = "delete"
        /\ calls[1].path = calls[2].path
        /\ Answered(calls[1]) /\ is_success(StatusOf(calls[1]))
        /\ Answered(calls[2]) /\ StatusOf(calls[2]) = 404)
       => calls[1].result.ok /\ calls[2].result.ok

C13_Witness ==
    /\ Len(calls) = 2
    /\ calls[1].op = "delete" /\ calls[2].op = "delete"
    /\ calls[1].path = calls[2].path
    /\ Answered(calls[1]) /\ StatusOf(calls[1]) = 200
    /\ Answered(calls[2]) /\ StatusOf(calls[2]) = 404
    /\ calls[1].result.ok /\ calls[2].result.ok

\* The statuses on which a call fails.
Refused(call) ==
    /\ Answered(call)
    /\ ~is_success(StatusOf(call))
    /\ ~(call.op = "delete" /\ StatusOf(call) = 404)

\* C14: a call that got a status other than 200..299 (and other than 404 for
\* a delete) returns an error that carries the URL of the request and the
\* status, whatever the body of the response is; the error of post, put and
\* delete also carries the text of a body that is text.
C14_RequestFailed ==
    \A k \in 1..Len(calls) :
        Refused(calls[k]) =>
            /\ ~calls[k].result.ok
            /\ calls[k].result.error[1].uri = Some(calls[k].request.uri)
            /\ calls[k].result.error[1].status = Some(StatusOf(calls[k]))
            /\ (calls[k].op \in {"post", "put", "delete"} /\ PayloadOf(calls[k]).utf8) =>
                   calls[k].result.error[1].body = Some(PayloadOf(calls[k]).text)

\* The headers of a request with this name.
Headers(request, name) ==
    {k \in 1..Len(request.headers) : request.headers[k][1] = name}

\* C15: the request of a post or put has a Content-Type header exactly when
\* its body is not empty; the request of a get or delete has none.
C15_ContentType ==
    /\ \A k \in CallsOf({"post", "put"}) :
         Headers(calls[k].request, CONTENT_TYPE) # {} <=> calls[k].request.body # <<>>
    /\ \A k \in CallsOf({"get", "delete"}) :
         Headers(calls[k].request, CONTENT_TYPE) = {}

\* The six inputs of the signature of a call, and the ones they are
\* compared with.
Signed(secret, consumer_key, method, uri, body, timestamp) ==
    [secret |-> secret, consumer_key |-> consumer_key, method |-> method,
     uri |-> uri, body |-> body, timestamp |-> timestamp]

InputsOf(call) ==
    Signed(config.application_secret, config.consumer_key[1], <<call.request.method>>,
           call.request.uri, call.request.body, call.timestamp[1])

Alternatives(call) ==
    LET in == InputsOf(call)
    IN  {[in EXCEPT !.secret = x] : x \in SecretSet}
        \cup {[in EXCEPT !.consumer_key = x] : x \in ConsumerSet}
        \cup {[in EXCEPT !.method = <<x>>] : x \in {"GET", "POST", "PUT", "DELETE"}}
        \cup {[in EXCEPT !.uri = Uri(try_from(config).value[1], x)] : x \in PathSet}
        \cup {[in EXCEPT !.body = Body(to_json(x))] : x \in ObjSet}
        \cup {[in EXCEPT !.timestamp = x] : x \in NowSet \cup {in.timestamp + 1}}

DigestedOf(in) ==
    Digested(in.secret, in.consumer_key, in.method, in.uri, in.body, in.timestamp)

SignatureOf(in) ==
    hash([application_secret |-> in.secret, consumer_key |-> in.consumer_key],
         in.method, in.uri, in.body, in.timestamp)

\* C16: the signature header of a signed request is the hash of its six
\* inputs, whatever else the call is; with one of the six replaced by another
\* value and the other five kept, what is digested is another string and the
\* signature another signature, in particular with the timestamp plus one.
C16_Signature ==
    \A k \in CallsOf({"get", "post", "put", "delete"}) :
        LET request == calls[k].request
            in      == InputsOf(calls[k])
        IN  /\ \A h \in Headers(request, X_OVH_SIGNATURE) :
                  request.headers[h][2] = SignatureOf(in)
            /\ \A other \in Alternatives(calls[k]) :
                  other # in =>
                      /\ DigestedOf(other) # DigestedOf(in)
                      /\ \A h \in Headers(request, X_OVH_SIGNATURE) :
                             request.headers[h][2] # SignatureOf(other)

C16_Witness ==
    /\ Len(calls) = 1
    /\ calls[1].op = "post"
    /\ calls[1].timestamp = Some(9)
    /\ calls[1].request.body # <<>>
    /\ config.application_secret = <<"s3", "+", "ck">>
    /\ Headers(calls[1].request, X_OVH_SIGNATURE) # {}

\* C17: a request of get_unauthenticated or post_unauthenticated has the
\* application header and the user agent and no timestamp, consumer or
\* signature header; a request of get, post, put or delete has the
\* application, timestamp, consumer and signature headers.
C17_Unauthenticated ==
    /\ \A k \in CallsOf({"get_unauthenticated", "post_unauthenticated"}) :
         /\ \A name \in {X_OVH_APPLICATION, USER_AGENT} :
                Headers(calls[k].request, name) # {}
         /\ \A name \in {X_OVH_TIMESTAMP, X_OVH_CONSUMER, X_OVH_SIGNATURE} :
                Headers(calls[k].request, name) = {}
    /\ \A k \in CallsOf({"get", "post", "put", "delete"}) :
         \A name \in {X_OVH_APPLICATION, X_OVH_TIMESTAMP, X_OVH_CONSUMER, X_OVH_SIGNATURE} :
             Headers(calls[k].request, name) # {}

C17_Witness ==
    /\ Len(calls) = 1
    /\ calls[1].op = "get_unauthenticated"
    /\ calls[1].result.ok
    /\ Len(calls[1].request.headers) = 2

\* C18: connect run with a configuration without consumer key sends the
\* unauthenticated POST auth/credential, and prints the validation URL and
\* the consumer key of the answer when there is one.
C18_Bootstrap ==
    (command.name = "connect" /\ config.consumer_key = None /\ pc \in {"done", "error"}) =>
        /\ Len(calls) = 1
        /\ calls[1].op = "post_unauthenticated"
        /\ calls[1].path = <<"auth/credential">>
        /\ calls[1].result.ok =>
               /\ pc = "done"
               /\ output = Printed(PayloadOf(calls[1]).text)

\* The requests of a collector that gets a list of ids at `list` and then
\* each object at `item`, with the ids it got and the objects it has so far:
\* the first request is the GET of the list, the k-th after it the GET of
\* the k-th id, the objects are those of the ids in the order of the ids, and
\* the collector returns (the command is done) with as many objects as ids.
TwoPhase(list, item, keys, objects, Key(_)) ==
    /\ log # <<>> => log[1].method = "GET" /\ log[1].route = list
    /\ Len(log) <= 1 + Len(keys)
    /\ \A k \in 2..Len(log) :
         log[k].method = "GET" /\ log[k].route = item /\ log[k].arg = keys[k - 1]
    /\ Len(objects) = Cardinality({k \in 2..Len(log) : log[k].ok})
    /\ \A k \in 1..Len(objects) : Key(objects[k]) = keys[k]
    /\ pc = "done" => Len(log) = 1 + Len(keys) /\ Len(objects) = Len(keys)

TenantsTwoPhase ==
    command.name = "tenants" =>
        /\ TwoPhase("cloud/project", "cloud/project/{id}", tenantIds, tenants,
                    LAMBDA tenant : tenant.project_id)
        /\ pc = "done" => Len(tenants) = Len(cloud)

ZonesTwoPhase ==
    command.name = "zones" =>
        /\ TwoPhase("domain/zone", "domain/zone/{id}", ids, zones, LAMBDA z : z.name)
        /\ pc = "done" => ids = zoneNames

RecordsTwoPhase ==
    command.name = "records" =>
        /\ TwoPhase("domain/zone/{zone}/record", "domain/zone/{zone}/record/{id}",
                    ids, output, LAMBDA record : record.id[1])
        /\ pc = "done" => output = zoneRecords

\* C19 as it is stated: the four collectors, list_instances among them, send
\* the GET of a list of ids and then one GET per id.
C19_Original ==
    /\ TenantsTwoPhase
    /\ ZonesTwoPhase
    /\ RecordsTwoPhase
    /\ (command.name = "instances" /\ pc = "done") =>
           /\ Len(log) = 1 + Len(instances)
           /\ \A k \in 2..Len(log) : log[k].method = "GET"

\* C19: list_tenants, list_zones and list_records send one GET that returns
\* the ids and then one GET per id in the order of the ids, and return the
\* objects in that order, as many as ids; list_instances sends one GET,
\* which returns the instances of the tenant, and returns them as they are.
C19_Collectors ==
    /\ TenantsTwoPhase
    /\ ZonesTwoPhase
    /\ RecordsTwoPhase
    /\ command.name = "instances" =>
           /\ Len(log) <= 1
           /\ \A k \in 1..Len(log) :
                /\ log[k].method = "GET"
                /\ log[k].route = "cloud/project/{tenant}/instance"
                /\ log[k].arg = command.tenant
           /\ pc = "done" => Len(log) = 1 /\ instances = cloud[command.tenant]

C19_Witness ==
    /\ command.name = "tenants"
    /\ pc = "done"
    /\ Len(tenantIds) = 2
    /\ Len(tenants) = 2
    /\ Len(log) = 3

\* The requests of the log that are the same request.
Same(a, b) ==
    /\ log[a].method = log[b].method
    /\ log[a].route = log[b].route
    /\ log[a].arg = log[b].arg
    /\ log[a].body = log[b].body

\* C20: a step sends at most one request; a request that failed is the last
\* of the log and the sync has ended with an error, so that no request
\* follows it and it is not sent again; a sync that has ended with an error
\* ended on a failed request; the lists that sync_records got from
\* list_tenants and from its own fetch of the records, and the list that
\* list_records returns at the end, are complete.
C20_NoRetry ==
    /\ \A k \in 1..Len(log) : ~log[k].ok => k = Len(log) /\ pc = "error"
    /\ pc = "error" => log # <<>> /\ ~log[Len(log)].ok
    /\ \A a, b \in 1..Len(log) : (a < b /\ Same(a, b)) => log[a].ok
    /\ pc \notin {"list_tenants", "get_tenant", "error"} =>
           Len(tenants) = Len(tenantIds) /\ Len(tenantIds) = Len(cloud)
    /\ pc \notin {"list_tenants", "get_tenant", "list_instances", "fetch_record_ids",
                  "fetch_record", "error"} =>
           Len(records) = Len(SelectSeq(log, IsRead)) - 1
                            - (IF pc \in {"get_record", "done"} THEN 1 + Len(output) ELSE 0)
    /\ pc = "done" => Len(output) = Len(zoneRecords) /\ Len(output) = Len(ids)

C20_Witness ==
    /\ pc = "error"
    /\ Len(log) = 4
    /\ log[1].route = "cloud/project" /\ log[1].ok
    /\ log[2].route = "cloud/project/{id}" /\ log[2].ok
    /\ log[3].route = "cloud/project/{id}" /\ log[3].ok
    /\ log[4].route = "cloud/project/{tenant}/instance" /\ ~log[4].ok
    /\ Len(tenants) = 2
    /\ instances = <<>>

\* The request of an entry of the log.
Answer(r) == [method |-> r.method, route |-> r.route, arg |-> r.arg]

\* C21: at most one request is written and not yet answered; the requests
\* are answered in the order they were written, each before the next is
\* written, in the loops over the ids, over toDelete and over toCreate as
\* everywhere else.
C21_Sequential ==
    /\ Outstanding \in {0, 1}
    /\ \A k \in 1..Len(log) : Answer(log[k]) = sent[k]
    /\ Outstanding = 1 => Calling /\ sent[Len(sent)] = Written

C21_Witness ==
    /\ Outstanding = 1
    /\ pc = "create"
    /\ i = 2
    /\ \E k \in 1..Len(log) : IsDelete(log[k])
    /\ \E k \in 1..Len(log) : log[k].route = "domain/zone/{zone}/record/{id}" /\ log[k].arg = 2

\* The number of requests the lists of a sync allow for: the two of the
\* lists of ids, one per tenant id, one per tenant, one per id of a list of
\* records and one per record fetched before the diff, one per record of
\* toDelete and of toCreate, the refresh and the list of the re-read.
RequestBound ==
    4 + Len(tenantIds) + Len(tenants) + Len(ids) + Len(records)
      + Len(records_to_delete) + Len(records_to_create)

Terminated == pc \in {"done", "error"}

\* C30: where every request gets its response, the sync ends, done or with
\* the first error; it has then, as at any time, written no more requests
\* than RequestBound; while a request has no response the only step is the
\* return of that call: nothing is written and the sync does not move.
C30_Termination ==
    /\ <>Terminated
    /\ [](Len(sent) <= RequestBound)
    /\ [](Terminated => Outstanding = 0)
    /\ [](\A k \in 1..Len(log) : ~log[k].ok => pc = "error")
    /\ [][Outstanding > 0 => (sent' = sent /\ Len(log') = Len(log) + 1)]_vars

C30_Witness ==
    /\ pc = "done"
    /\ Len(sent) = RequestBound
    /\ Len(sent) >= 12
    /\ records_to_delete # <<>>
    /\ records_to_create # <<>>

\* The first of the records that targets the address.
FirstTargeting(recs, address) ==
    recs[CHOOSE k \in 1..Len(recs) :
            /\ recs[k].target = to_string(address.ip)
            /\ \A n \in 1..(k - 1) : recs[n].target # to_string(address.ip)]

\* The record differs from the desired one of the address in field type, sub
\* domain or zone.
Differs(r, name, address) ==
    \/ r.field_type # (IF address.version = 4 THEN "A" ELSE "AAAA")
    \/ ~Stripped(r.sub_domain, name)
    \/ r.zone # zone

\* C22: for a managed address (public, not excluded, version 4 or 6) that an
\* existing record targets, with that record being the first of the records
\* that targets it: when the record differs from the desired one in field
\* type, sub domain or zone the iteration puts the record in toDelete and the
\* desired one in toCreate, and when it does not it puts nothing in either;
\* no request of the sync is a PUT.
C22_ReplaceNeverMutate ==
    /\ (iter # None /\ Managed(iter[1].address) /\ Targeted(records, iter[1].address)) =>
           LET existing == FirstTargeting(records, iter[1].address)
           IN  IF Differs(existing, iter[1].name, iter[1].address)
               THEN /\ iter[1].delete = <<existing>>
                    /\ Len(iter[1].create) = 1
                    /\ Desired(iter[1].create[1], iter[1].name, iter[1].address)
                    /\ iter[1].create[1].id = None
               ELSE iter[1].delete = <<>> /\ iter[1].create = <<>>
    /\ \A k \in 1..Len(log) : log[k].method \in {"GET", "POST", "DELETE"}

C22_Witness ==
    /\ pc = "done"
    /\ iter # None
    /\ Managed(iter[1].address)
    /\ Targeted(records, iter[1].address)
    /\ Len(iter[1].delete) = 1
    /\ iter[1].delete[1].sub_domain # iter[1].create[1].sub_domain
    /\ \E k \in 1..Len(log) : IsDelete(log[k]) /\ log[k].arg = iter[1].delete[1].id[1]
    /\ \E k \in 1..Len(log) : IsCreate(log[k])

\* The positions of a sequence of records that hold this record.
Places(recs, r) == {k \in 1..Len(recs) : recs[k] = r}

\* C23: once the diff is computed, no existing record is in toDelete twice,
\* no two records of toCreate are equal, and no record of toCreate is equal
\* to an existing record that is not in toDelete.
C23_MinimalChangeSet ==
    DiffDone =>
        /\ \A k \in 1..Len(records) :
             Cardinality(Places(records_to_delete, records[k])) <= 1
        /\ \A a, b \in 1..Len(records_to_create) :
             a # b => ~RecordEq(records_to_create[a], records_to_create[b])
        /\ \A a \in 1..Len(records_to_create), k \in 1..Len(records) :
             RecordEq(records_to_create[a], records[k]) =>
                 Places(records_to_delete, records[k]) # {}

\* The address is one whose records are stale: it is not public, or it lies
\* in an excluded CIDR.
Stale(address) == address.kind # "public" \/ Excluded(address)

\* C24: after a sync that ended well, no record of the zone targets the
\* value of an address of an instance that is not public or lies in an
\* excluded CIDR.
C24_StaleRemoved ==
    pc = "done" =>
        \A k \in 1..Len(Iterations(instances)) :
            Stale(Iterations(instances)[k].address) =>
                ~Targeted(zoneRecords, Iterations(instances)[k].address)

\* The name with one trailing zone suffix removed, when it ends with one.
StripOne(name) ==
    IF name # <<>> /\ name[Len(name)] = ZoneSuffix
    THEN SubSeq(name, 1, Len(name) - 1)
    ELSE name

\* C25: the sub domain of the record an iteration puts in toCreate is the
\* name of the instance without one trailing zone suffix when the name ends
\* with it, and the name otherwise; of a name that ends with the suffix
\* twice, one occurrence is kept.
C25_SubDomain ==
    (iter # None /\ iter[1].create # <<>>) =>
        iter[1].create[1].sub_domain = StripOne(iter[1].name)

\* The requests that change the zone, and the requests of one route.
Mutating(r) == r.method \in {"DELETE", "POST"}
OnRoute(l, route) == SelectSeq(l, LAMBDA r : r.route = route)
Args(l) == [k \in 1..Len(l) |-> l[k].arg]

\* The requests sent before the first DELETE or POST (all of them when there
\* is none).
ReadPhase ==
    LET at == {k \in 1..Len(log) : Mutating(log[k])}
    IN  IF at = {} THEN log
        ELSE SubSeq(log, 1, (CHOOSE k \in at : \A m \in at : k <= m) - 1)

\* list_records, after the refresh, has fetched the ids of the zone again.
Reread == \E k \in (Len(ReadPhase) + 1)..Len(log) : IsRead(log[k]) /\ log[k].ok

\* C26: before its first DELETE or POST a sync has fetched, each with
\* success, the tenant list, every tenant, every tenant's instance list, the
\* record id list of the zone and every record of it, and has sent nothing
\* else; a read of these that fails is the last request of the sync, which
\* ends with an error, and as long as no DELETE and no POST is sent the zone
\* does not change.
C26_ReadsBeforeWrites ==
    /\ [](Len(ReadPhase) < Len(log) =>
            /\ \A k \in 1..Len(ReadPhase) : ReadPhase[k].method = "GET" /\ ReadPhase[k].ok
            /\ Len(OnRoute(ReadPhase, "cloud/project")) = 1
            /\ Args(OnRoute(ReadPhase, "cloud/project/{id}")) = tenantIds
            /\ Args(OnRoute(ReadPhase, "cloud/project/{tenant}/instance"))
                   = [k \in 1..Len(tenants) |-> tenants[k].project_id]
            /\ Len(tenants) = Len(tenantIds)
            /\ Len(OnRoute(ReadPhase, "domain/zone/{zone}/record")) = 1
            /\ Len(OnRoute(ReadPhase, "domain/zone/{zone}/record/{id}")) = Len(records)
            /\ Reread \/ ( /\ Args(OnRoute(ReadPhase, "domain/zone/{zone}/record/{id}")) = ids
                           /\ Len(records) = Len(ids) ))
    /\ [](\A k \in 1..Len(ReadPhase) :
            ~ReadPhase[k].ok =>
                /\ k = Len(log)
                /\ pc = "error"
                /\ records_to_delete = <<>> /\ records_to_create = <<>>)
    /\ [][(\A k \in 1..Len(log') : ~Mutating(log'[k])) => zoneRecords' = zoneRecords]_vars

C26_Witness ==
    /\ pc = "done"
    /\ Len(tenantIds) = 2
    /\ Len(ids) = 2
    /\ Len(ReadPhase) = 7
    /\ IsDelete(log[8])
    /\ \E k \in 9..Len(log) : IsCreate(log[k])

\* C27: a command of the authenticated transport whose configuration has no
\* consumer key ends at ClientConfiguration::try_from with its error: no
\* request is sent, nothing is fetched, printed or changed.
C27_NoConsumerKey ==
    (command.name \in AuthenticatedSet /\ config.consumer_key = None) =>
        /\ ~try_from(config).ok
        /\ pc \in {"configure", "error"}
        /\ log = <<>> /\ calls = <<>> /\ sent = <<>>
        /\ tenantIds = <<>> /\ ids = <<>> /\ output = <<>>

C27_Witness ==
    /\ command.name = "sync"
    /\ config.consumer_key = None
    /\ pc = "error"
    /\ cloud # <<>> /\ zoneRecords # <<>>

\* The method of the request of each authenticated operation of Client.
MethodOf(op) ==
    CASE op = "get" -> "GET" [] op = "post" -> "POST" [] op = "put" -> "PUT"
      [] op = "delete" -> "DELETE"

\* The value of the one header `name` of a request.
ValueOf(request, name) ==
    request.headers[CHOOSE h \in Headers(request, name) : TRUE][2]

\* C28: the request of a get, post, put or delete has one timestamp header,
\* whose value is the clock read by the call in decimal, and one signature
\* header, whose value is "$1$" and the digest of the secret, the consumer
\* key, the method of the request, its uri, which is the endpoint, "/" and
\* the path of the call, its body, which is empty for get and delete, and the
\* value of its timestamp header, joined by "+".
C28_SignatureOfRequest ==
    \A k \in CallsOf({"get", "post", "put", "delete"}) :
        LET call    == calls[k]
            request == call.request
        IN  /\ request.method = MethodOf(call.op)
            /\ request.uri = config.endpoint \o <<"/">> \o call.path
            /\ call.op \in {"get", "delete"} => request.body = <<>>
            /\ Cardinality(Headers(request, X_OVH_TIMESTAMP)) = 1
            /\ Cardinality(Headers(request, X_OVH_SIGNATURE)) = 1
            /\ call.timestamp # None
            /\ ValueOf(request, X_OVH_TIMESTAMP) = Decimal(call.timestamp[1])
            /\ ValueOf(request, X_OVH_SIGNATURE) =
                   <<"$1$">> \o Sha1(config.application_secret \o <<"+">>
                                     \o config.consumer_key[1] \o <<"+">>
                                     \o <<request.method>> \o <<"+">>
                                     \o request.uri \o <<"+">>
                                     \o request.body \o <<"+">>
                                     \o ValueOf(request, X_OVH_TIMESTAMP))

C28_Witness ==
    /\ Len(calls) = 1
    /\ calls[1].op = "post"
    /\ calls[1].obj = Str(<<>>)
    /\ calls[1].request.body = <<>>
    /\ calls[1].timestamp = Some(10)
    /\ calls[1].path = <<"domain/zone/", zone, "/record/", "1">>

\* The texts of the addresses of the instances of the account.
InstanceTargets ==
    {to_string(ip) : ip \in
        UNION {UNION {{cloud[t][n].ip_addresses[a].ip : a \in 1..Len(cloud[t][n].ip_addresses)} :
                      n \in 1..Len(cloud[t])} : t \in 1..Len(cloud)}}

\* The record targets the address of no instance.
Unrelated(r) == r.target \notin InstanceTargets

\* C29: every record of toDelete is one of the records fetched and targets
\* the address of some instance, every record of toCreate targets the address
\* of some instance, every DELETE sent is that of a fetched record that
\* targets the address of some instance, and the records of the zone that
\* target the address of no instance are the same, in the same order, after
\* every step of the sync.
C29_UnrelatedUntouched ==
    /\ [](/\ \A k \in 1..Len(records_to_delete) :
                /\ \E n \in 1..Len(records) : records[n] = records_to_delete[k]
                /\ ~Unrelated(records_to_delete[k])
          /\ \A k \in 1..Len(records_to_create) : ~Unrelated(records_to_create[k])
          /\ \A k \in 1..Len(log) :
                IsDelete(log[k]) =>
                    \E n \in 1..Len(records) :
                        records[n].id = Some(log[k].arg) /\ ~Unrelated(records[n]))
    /\ [][SelectSeq(zoneRecords', Unrelated) = SelectSeq(zoneRecords, Unrelated)]_vars

C29_Witness ==
    /\ pc = "done"
    /\ \E k \in 1..Len(zoneRecords) : Unrelated(zoneRecords[k]) /\ zoneRecords[k].id = Some(1)
    /\ \E k \in 1..Len(log) : IsDelete(log[k]) /\ log[k].arg = 2
    /\ \E k \in 1..Len(log) : IsCreate(log[k])
    /\ Len(zoneRecords) = 2

====
